---- MODULE Spec2Model ----
(***************************************************************************)
(* A model of the RESP server: the shared store (resp_server/core/         *)
(* datastore.py), the entry helpers (resp_server/core/helpers.py) and the  *)
(* command handlers of execute_single_command                              *)
(* (resp_server/core/command_execution.py).                                *)
(*                                                                         *)
(* One thread serves one connection.  A handler is a sequence of steps;    *)
(* each step is one acquisition of a lock (DATA_LOCK,                      *)
(* BLOCKING_CLIENTS_LOCK, BLOCKING_STREAMS_LOCK, a waiter's Condition) or  *)
(* one write to a socket, and is atomic.  The steps of different threads   *)
(* interleave freely.                                                      *)
(***************************************************************************)
EXTENDS Integers, Sequences, FiniteSets, TLC

\* ------------------------------------------------------------------------
\* Bounds of the model
\* ------------------------------------------------------------------------
NumClients == 4     \* connections the server accepts
MaxCmds == 3        \* requests sent over a whole run
FifoCmds == 4       \* requests sent over a run of pushes and blocking pops
MaxPush == 2        \* elements one RPUSH / LPUSH carries
MaxElems == 3       \* elements pushed over a whole run
MaxTime == 3        \* the wall clock runs from 1 to MaxTime
IncrCmds == 5       \* requests sent over a run of INCRs
StreamCmds == 3     \* requests sent over a run of XADDs and XREADs
EvictCmds == 1      \* SET requests sent to a store that holds MaxKeys keys
PushCmds == 2       \* requests of a run whose pushes carry 0..MaxPush elements
MaxTail == 5        \* bytes of an RDB file after its first section
WriteCmds == 3      \* requests of a run whose socket writes take two steps
LockCmds == 3       \* requests of a run with stream ids that do not parse
WireCmds == 3       \* requests sent as bytes over a run of reads
MaxStrLen == 2      \* characters of a string handed to the codec
DelCmds == 4        \* requests sent over a run with DEL
OverflowCmds == 3   \* INCR/INCRBY requests sent to a key near the 64-bit limit
LrangeCmds == 1     \* LRANGE requests sent to one list
ModeCmds == 4       \* requests sent over a run in and out of subscribe mode
PubSubCmds == 3     \* requests sent over a run of pub/sub commands
TypeCmds == 2       \* requests sent while commands meet keys of another kind
IncrStart == 9      \* the integer the key holds when a run of INCRs starts

Clients == 1..NumClients
Keys == {"k"}
MaxKeys == 100      \* the limit on the number of keys that test_lru_eviction expects
Channels == {"a", "b"}

NoExpiry == -1
NoCond == 0

VARIABLES
    DATA_STORE,            \* key -> entry {'type','value','expiry'} or Absent
    STREAMS,               \* key -> stream body
    BLOCKING_CLIENTS,      \* key -> queue of Conditions of parked BLPOPs
    BLOCKING_STREAMS,      \* key -> queue of Conditions of parked XREADs
    CHANNEL_SUBSCRIBERS,   \* channel -> set of clients
    CLIENT_SUBSCRIPTIONS,  \* client -> set of channels
    CLIENT_STATE,          \* client -> is_subscribed, or "none"
    conds,                 \* the Condition objects created so far
    pc,                    \* where each connection's thread stands
    loc,                   \* the local variables of each thread's handler
    sock,                  \* the frames written to each connection's socket
    peer,                  \* "open", or "closed" once the peer has hung up
    ncmds,                 \* requests each connection has sent
    nextElem,              \* the next fresh list element
    now,                   \* wall clock, ms
    budget                 \* requests the connections send in this run

vars == <<DATA_STORE, STREAMS, BLOCKING_CLIENTS, BLOCKING_STREAMS,
          CHANNEL_SUBSCRIBERS, CLIENT_SUBSCRIPTIONS, CLIENT_STATE, conds,
          pc, loc, sock, peer, ncmds, nextElem, now, budget>>

storeVars == <<DATA_STORE, STREAMS>>
pubsubVars == <<CHANNEL_SUBSCRIBERS, CLIENT_SUBSCRIPTIONS, CLIENT_STATE>>
regVars == <<BLOCKING_CLIENTS, BLOCKING_STREAMS>>

\* ------------------------------------------------------------------------
\* Entries and the helpers of helpers.py
\* ------------------------------------------------------------------------
Absent == [type |-> "none", value |-> <<>>, expiry |-> NoExpiry]

Entry(t, v, e) == [type |-> t, value |-> v, expiry |-> e]

NoStream == [has |-> FALSE, entries |-> <<>>]

\* check_expiry: the entry has an expiry and the clock has reached it
check_expiry(entry, t) == entry.expiry # NoExpiry /\ t >= entry.expiry

\* get_valid_entry: the entry under key, Absent when it is missing, expired
\* or of another type than expected_type ("" = any type)
get_valid_entry(store, key, expected_type, t) ==
    LET entry == store[key] IN
    IF entry.type = "none" THEN Absent
    ELSE IF check_expiry(entry, t) THEN Absent
    ELSE IF expected_type # "" /\ entry.type # expected_type THEN Absent
    ELSE entry

\* the store after get_valid_entry: an expired entry is deleted
StoreAfterGet(store, key, t) ==
    IF store[key].type # "none" /\ check_expiry(store[key], t)
    THEN [store EXCEPT ![key] = Absent] ELSE store

\* the side store (STREAMS) after get_valid_entry
SideAfterGet(store, side, key, t) ==
    IF store[key].type # "none" /\ check_expiry(store[key], t)
    THEN [side EXCEPT ![key] = NoStream] ELSE side

\* ------------------------------------------------------------------------
\* Strings: a string value is the sequence of its characters
\* ------------------------------------------------------------------------
Digits == <<"0", "1", "2", "3", "4", "5", "6", "7", "8", "9">>

RECURSIVE NatToStr(_)
NatToStr(n) == IF n < 10 THEN <<Digits[n + 1]>>
               ELSE NatToStr(n \div 10) \o <<Digits[(n % 10) + 1]>>

\* str(n)
IntToStr(n) == IF n < 0 THEN <<"-">> \o NatToStr(-n) ELSE NatToStr(n)

IsDigit(ch) == \E d \in 1..10 : Digits[d] = ch
DigitVal(ch) == (CHOOSE d \in 1..10 : Digits[d] = ch) - 1

RECURSIVE DigitsToNat(_)
DigitsToNat(s) == IF s = <<>> THEN 0
                  ELSE 10 * DigitsToNat(SubSeq(s, 1, Len(s) - 1)) + DigitVal(s[Len(s)])

\* int(s) for a string of a sign and digits: [ok, n]; ok = FALSE is ValueError
StrToInt(s) ==
    LET signed == s # <<>> /\ s[1] \in {"-", "+"}
        body == IF signed THEN Tail(s) ELSE s IN
    IF body # <<>> /\ \A i \in 1..Len(body) : IsDigit(body[i])
    THEN [ok |-> TRUE, n |-> IF signed /\ s[1] = "-" THEN -DigitsToNat(body)
                             ELSE DigitsToNat(body)]
    ELSE [ok |-> FALSE, n |-> 0]

\* Python's integers have no width.  A decimal string of more than SmallLen
\* significant digits is added to digit by digit; amounts stay below
\* 10^SmallLen in magnitude.
SmallLen == 9

RECURSIVE StripZeros(_)
StripZeros(ds) == IF Len(ds) > 1 /\ ds[1] = "0" THEN StripZeros(Tail(ds)) ELSE ds

\* the digits of ds + n, for n >= 0
RECURSIVE DecAdd(_, _)
DecAdd(ds, n) ==
    IF n = 0 THEN ds
    ELSE IF ds = <<>> THEN NatToStr(n)
    ELSE LET t == DigitVal(ds[Len(ds)]) + n IN
         DecAdd(SubSeq(ds, 1, Len(ds) - 1), t \div 10) \o <<Digits[(t % 10) + 1]>>

\* the digits of ds - n, for 0 <= n <= ds
RECURSIVE DecSub(_, _)
DecSub(ds, n) ==
    IF n = 0 \/ ds = <<>> THEN ds
    ELSE LET d == DigitVal(ds[Len(ds)]) - (n % 10)
             borrow == IF d < 0 THEN 1 ELSE 0 IN
         DecSub(SubSeq(ds, 1, Len(ds) - 1), (n \div 10) + borrow)
             \o <<Digits[d + 10 * borrow + 1]>>

\* int(s) as sign and digits: [ok, neg, mag]; ok = FALSE is ValueError
StrToBig(s) ==
    LET signed == s # <<>> /\ s[1] \in {"-", "+"}
        body == IF signed THEN Tail(s) ELSE s IN
    IF body # <<>> /\ \A i \in 1..Len(body) : IsDigit(body[i])
    THEN [ok |-> TRUE, neg |-> signed /\ s[1] = "-" /\ StripZeros(body) # <<"0">>,
          mag |-> StripZeros(body)]
    ELSE [ok |-> FALSE, neg |-> FALSE, mag |-> <<"0">>]

\* str(int(s) + amount) for a string s that int() accepts
StrPlus(s, amount) ==
    LET b == StrToBig(s) IN
    IF Len(b.mag) <= SmallLen THEN IntToStr(StrToInt(s).n + amount)
    ELSE LET away == (b.neg /\ amount < 0) \/ (~b.neg /\ amount >= 0)
             n == IF amount < 0 THEN -amount ELSE amount
             mag == IF away THEN DecAdd(b.mag, n) ELSE StripZeros(DecSub(b.mag, n)) IN
         IF b.neg THEN <<"-">> \o mag ELSE mag

\* a stream id is the sequence of the characters of its text; "0-0"
ZeroId == <<"0", "-", "0">>

\* ------------------------------------------------------------------------
\* Store operations of datastore.py (each runs under DATA_LOCK)
\* ------------------------------------------------------------------------
_set_entry(store, key, value, type_str, expiry) ==
    [store EXCEPT ![key] = Entry(type_str, value, expiry)]

existing_list(store, key, t) == get_valid_entry(store, key, "list", t).type # "none"

\* _list_push: nothing happens when the key holds no list
_list_push(store, key, element, prepend, t) ==
    LET s1 == StoreAfterGet(store, key, t)
        entry == get_valid_entry(store, key, "list", t) IN
    IF entry.type = "none" THEN s1
    ELSE [s1 EXCEPT ![key].value =
             IF prepend THEN <<element>> \o entry.value
                        ELSE Append(entry.value, element)]

size_of_list(store, key, t) ==
    LET entry == get_valid_entry(store, key, "list", t) IN
    IF entry.type = "none" THEN 0 ELSE Len(entry.value)

Min(a, b) == IF a < b THEN a ELSE b
Max(a, b) == IF a > b THEN a ELSE b

\* a pop that returns the head elements and leaves them in the list
remove_elements_peek(store, key, count, t) ==
    LET s1 == StoreAfterGet(store, key, t)
        entry == get_valid_entry(store, key, "list", t) IN
    IF entry.type # "none" /\ Len(entry.value) > 0
    THEN [ok |-> TRUE,
          popped |-> SubSeq(entry.value, 1, Max(0, Min(count, Len(entry.value)))),
          store |-> s1]
    ELSE [ok |-> FALSE, popped |-> <<>>, store |-> s1]

\* a pop that leaves the emptied list in the store
remove_elements_keep_empty(store, key, count, t) ==
    LET s1 == StoreAfterGet(store, key, t)
        entry == get_valid_entry(store, key, "list", t) IN
    IF entry.type # "none" /\ Len(entry.value) > 0
    THEN LET n == Max(0, Min(count, Len(entry.value))) IN
         [ok |-> TRUE,
          popped |-> SubSeq(entry.value, 1, n),
          store |-> [s1 EXCEPT ![key].value = SubSeq(entry.value, n + 1, Len(entry.value))]]
    ELSE [ok |-> FALSE, popped |-> <<>>, store |-> s1]

\* remove_elements_from_list: [ok, popped, store]; ok = FALSE is Python's None
remove_elements_from_list(store, key, count, t) ==
    LET s1 == StoreAfterGet(store, key, t)
        entry == get_valid_entry(store, key, "list", t) IN
    IF entry.type # "none" /\ Len(entry.value) > 0
    THEN LET n == Max(0, Min(count, Len(entry.value)))
             rest == SubSeq(entry.value, n + 1, Len(entry.value)) IN
         [ok |-> TRUE,
          popped |-> SubSeq(entry.value, 1, n),
          store |-> IF Len(rest) = 0 THEN [s1 EXCEPT ![key] = Absent]
                    ELSE [s1 EXCEPT ![key].value = rest]]
    ELSE [ok |-> FALSE, popped |-> <<>>, store |-> s1]

\* a range whose end index is exclusive
lrange_exclusive(store, key, start, end, t) ==
    LET entry == get_valid_entry(store, key, "list", t) IN
    IF entry.type = "none" THEN <<>>
    ELSE LET lst == entry.value
             L == Len(lst)
             s0 == IF start < 0 THEN start + L ELSE start
             e0 == IF end < 0 THEN end + L ELSE end
             s1 == Max(0, s0) IN
         IF s1 > e0 \/ s1 >= L THEN <<>>
         ELSE SubSeq(lst, s1 + 1, Min(e0, L))

\* lrange_rtn
lrange_rtn(store, key, start, end, t) ==
    LET entry == get_valid_entry(store, key, "list", t) IN
    IF entry.type = "none" THEN <<>>
    ELSE LET lst == entry.value
             L == Len(lst)
             s0 == IF start < 0 THEN start + L ELSE start
             e0 == IF end < 0 THEN end + L ELSE end
             s1 == Max(0, s0) IN
         IF s1 > e0 \/ s1 >= L THEN <<>>
         ELSE SubSeq(lst, s1 + 1, Min(e0 + 1, L))

ErrWrongType == "WRONGTYPE Operation against a key holding the wrong kind of value"
ErrNotInteger == "value is not an integer or out of range"

\* an increment that reads the value and stores it unchanged
_incr_lost(store, key, amount, t) ==
    [store |-> store, err |-> "",
     val |-> IF store[key].type = "string" THEN StrToInt(store[key].value).n + amount
             ELSE amount,
     text |-> IF store[key].type = "string" THEN StrPlus(store[key].value, amount)
              ELSE IntToStr(amount)]

\* _incr_generic: [store, val, text, err]; err = "" when the value was
\* incremented; text is str(new_val), and val is new_val where it has at most
\* SmallLen digits (0 otherwise)
_incr_generic(store, key, amount, t) ==
    LET expired == store[key].type # "none" /\ check_expiry(store[key], t)
        s1 == IF expired THEN [store EXCEPT ![key] = Absent] ELSE store
        entry == s1[key] IN
    IF entry.type = "none"
    THEN [store |-> _set_entry(s1, key, IntToStr(amount), "string", NoExpiry),
          val |-> amount, text |-> IntToStr(amount), err |-> ""]
    ELSE IF entry.type # "string"
    THEN [store |-> s1, val |-> 0, text |-> <<>>, err |-> ErrWrongType]
    ELSE LET cur == StrToBig(entry.value) IN
         IF cur.ok
         THEN LET new_val == StrPlus(entry.value, amount) IN
              [store |-> [s1 EXCEPT ![key].value = new_val],
               val |-> IF Len(cur.mag) <= SmallLen THEN StrToInt(entry.value).n + amount
                       ELSE 0,
               text |-> new_val, err |-> ""]
         ELSE [store |-> s1, val |-> 0, text |-> <<>>, err |-> ErrNotInteger]

\* cleanup_blocked_client: the pub/sub indexes without the client
cleanup_subscribers(subs, client) == [ch \in DOMAIN subs |-> subs[ch] \ {client}]

\* subscribe(client, channel): the three pub/sub mappings after it.  A channel
\* or a client that is no key of its dict is mapped to the empty set.
subscribe(subs, chans, state, client, channel) ==
    [subs |-> [subs EXCEPT ![channel] = @ \cup {client}],
     chans |-> [chans EXCEPT ![client] = @ \cup {channel}],
     state |-> [state EXCEPT ![client] = "subscribed"]]

\* an unsubscribe that leaves the client in the channel's subscriber set
unsubscribe_half(subs, chans, state, client, channel) ==
    [subs |-> subs,
     chans |-> [chans EXCEPT ![client] = @ \ {channel}],
     state |-> state]

\* unsubscribe(client, channel)
unsubscribe(subs, chans, state, client, channel) ==
    LET chans1 == [chans EXCEPT ![client] = @ \ {channel}] IN
    [subs |-> [subs EXCEPT ![channel] = @ \ {client}],
     chans |-> chans1,
     state |-> IF state[client] = "none" THEN state
               ELSE [state EXCEPT ![client] =
                        IF chans1[client] # {} THEN "subscribed" ELSE "unsubscribed"]]

\* a subscribe-mode test that never finds the client subscribed
is_client_subscribed_never(state, client) == state[client] = "subscribed" /\ FALSE

\* is_client_subscribed(client)
is_client_subscribed(state, client) == state[client] = "subscribed"

\* num_client_subscriptions(client)
num_client_subscriptions(chans, client) == Cardinality(chans[client])

\* ------------------------------------------------------------------------
\* Frames written to a socket
\* ------------------------------------------------------------------------
\* items: list elements; entries: stream entries or ids; text: an error text;
\* cond is history: the Condition of the blocking request the frame answers
NoFrame == [kind |-> "none", key |-> "", items |-> <<>>, n |-> 0, cond |-> NoCond,
            entries |-> <<>>, text |-> "", value |-> <<>>, keys |-> {}]

IntegerFrame(n) == [NoFrame EXCEPT !.kind = "integer", !.n = n]
NullBulkFrame == [NoFrame EXCEPT !.kind = "null_bulk"]
BulkFrame(e) == [NoFrame EXCEPT !.kind = "bulk", !.items = <<e>>]
ArrayFrame(items) == [NoFrame EXCEPT !.kind = "array", !.items = items]
ErrorFrame(text) == [NoFrame EXCEPT !.kind = "error", !.text = text]
\* ["subscribe" or "unsubscribe", channel, number of subscriptions]
SubscribeFrame(what, channel, n) ==
    [NoFrame EXCEPT !.kind = what, !.text = channel, !.n = n]
\* ["message", channel, message]
MessageFrame(channel) == [NoFrame EXCEPT !.kind = "message", !.text = channel]
SimpleFrame(text) == [NoFrame EXCEPT !.kind = "simple", !.text = text]
\* a bulk string that carries a string value or a type name
StringFrame(v) == [NoFrame EXCEPT !.kind = "bulk_string", !.value = v]
TypeFrame(t) == [NoFrame EXCEPT !.kind = "bulk_type", !.text = t]
\* the array of the matching keys (their order in the dict is left out)
KeysFrame(ks) == [NoFrame EXCEPT !.kind = "keys", !.keys = ks]
\* [key, element], the reply of BLPOP (cond = NoCond on the fast path)
KeyElemFrame(key, e, cond) ==
    [NoFrame EXCEPT !.kind = "key_elem", !.key = key, !.items = <<e>>, !.cond = cond]
\* *-1, the reply of a BLPOP or XREAD BLOCK that timed out
NullArrayFrame(cond) == [NoFrame EXCEPT !.kind = "null_array", !.cond = cond]
\* the id of an appended entry as a bulk string
IdFrame(id) == [NoFrame EXCEPT !.kind = "bulk_id", !.entries = <<id>>]
\* _xread_serialize_response for one key: [[key, [[id, fields], ...]]]
XreadFrame(key, entries, cond) ==
    [NoFrame EXCEPT !.kind = "xread", !.key = key, !.entries = entries, !.cond = cond]

\* sendall: a closed socket takes nothing (the exception is swallowed)
sendall(s, client, frame) ==
    IF peer[client] = "open" THEN [s EXCEPT ![client] = Append(@, frame)] ELSE s

\* the frames written so far, as <<connection, position>>
FramePos == UNION {{<<c, j>> : j \in 1..Len(sock[c])} : c \in Clients}

FrameAt(x) == sock[x[1]][x[2]]

\* the frames that carry element e
Deliveries(e) == {x \in FramePos : \E i \in 1..Len(FrameAt(x).items) : FrameAt(x).items[i] = e}

\* the frames that answer the blocking request parked on Condition w
FramesFor(w) == {x \in FramePos : FrameAt(x).cond = w}

\* the Conditions whose request has been answered with the null array
NullWritten == {w \in DOMAIN conds : \E x \in FramesFor(w) : FrameAt(x).kind = "null_array"}

\* ------------------------------------------------------------------------
\* The codec of resp.py.  A string is a sequence of characters, the wire a
\* sequence of bytes; the character "U+E9" takes the two bytes C3 A9 in UTF-8,
\* every other character of Chars one byte of the same name.
\* ------------------------------------------------------------------------
Chars == {"a", "U+E9", "CR", "LF", "1"}

\* s.encode()
RECURSIVE Utf8Encode(_)
Utf8Encode(s) ==
    IF s = <<>> THEN <<>>
    ELSE (IF Head(s) = "U+E9" THEN <<"C3", "A9">> ELSE <<Head(s)>>) \o Utf8Encode(Tail(s))

\* bytes.decode("utf-8"): [ok, chars]; ok = FALSE is UnicodeDecodeError
RECURSIVE Utf8Decode(_)
Utf8Decode(b) ==
    IF b = <<>> THEN [ok |-> TRUE, chars |-> <<>>]
    ELSE IF b[1] = "C3"
    THEN IF Len(b) >= 2 /\ b[2] = "A9"
         THEN LET r == Utf8Decode(SubSeq(b, 3, Len(b))) IN
              [ok |-> r.ok, chars |-> <<"U+E9">> \o r.chars]
         ELSE [ok |-> FALSE, chars |-> <<>>]
    ELSE IF b[1] = "A9" THEN [ok |-> FALSE, chars |-> <<>>]
    ELSE LET r == Utf8Decode(Tail(b)) IN [ok |-> r.ok, chars |-> <<b[1]>> \o r.chars]

CRLF == <<"CR", "LF">>

\* a bulk string whose length is the number of characters
encode_bulk_string_chars(s) ==
    <<"$">> \o NatToStr(Len(s)) \o CRLF \o Utf8Encode(s) \o CRLF

\* encode_bulk_string
encode_bulk_string(s) ==
    LET s_bytes == Utf8Encode(s) IN
    <<"$">> \o NatToStr(Len(s_bytes)) \o CRLF \o s_bytes \o CRLF

RECURSIVE Concat(_)
Concat(items) == IF items = <<>> THEN <<>> ELSE Head(items) \o Concat(Tail(items))

\* encode_array, of items that are encoded already
encode_array(items) == <<"*">> \o NatToStr(Len(items)) \o CRLF \o Concat(items)

\* the array of the bulk strings of a list of strings
EncodeRequest(args) == encode_array([i \in 1..Len(args) |-> encode_bulk_string(args[i])])

\* the number of digits of data from position offset + 1 on
RECURSIVE DigitRun(_, _)
DigitRun(data, offset) ==
    IF offset < Len(data) /\ IsDigit(data[offset + 1]) THEN 1 + DigitRun(data, offset + 1)
    ELSE 0

\* ARRAY_HEADER_RE / BULK_HEADER_RE matched at offset: mark, digits, CR LF;
\* [ok, n, end]
MatchHeader(data, offset, mark) ==
    LET d == DigitRun(data, offset + 1)
        e == offset + 1 + d IN
    IF /\ offset < Len(data) /\ data[offset + 1] = mark
       /\ d > 0
       /\ e + 2 <= Len(data) /\ data[e + 1] = "CR" /\ data[e + 2] = "LF"
    THEN [ok |-> TRUE, n |-> DigitsToNat(SubSeq(data, offset + 2, e)), end |-> e + 2]
    ELSE [ok |-> FALSE, n |-> 0, end |-> offset]

NoParse == [ok |-> FALSE, elems |-> <<>>]

\* the loop of parse_resp_array: k bulk strings from offset on
RECURSIVE ParseBulks(_, _, _)
ParseBulks(data, offset, k) ==
    IF k = 0 THEN [ok |-> TRUE, elems |-> <<>>]
    ELSE LET match == MatchHeader(data, offset, "$")
             content_start == match.end
             content_end == content_start + match.n IN
         IF ~match.ok \/ content_end + 2 > Len(data) THEN NoParse
         ELSE LET content == Utf8Decode(SubSeq(data, content_start + 1, content_end))
                  rest == ParseBulks(data, content_end + 2, k - 1) IN
              IF content.ok /\ rest.ok
              THEN [ok |-> TRUE, elems |-> <<content.chars>> \o rest.elems]
              ELSE NoParse

\* parse_resp_array: [ok, elems]; ok = FALSE is None
parse_resp_array(data) ==
    LET match == MatchHeader(data, 0, "*") IN
    IF data = <<>> \/ ~match.ok THEN NoParse
    ELSE ParseBulks(data, match.end, match.n)

\* ------------------------------------------------------------------------
\* Threads
\* ------------------------------------------------------------------------
\* ghead, glen and gwait are history: the head and the length of the list and
\* the head of the waiter queue when the handler's insertion was complete;
\* gnulls: the Conditions answered with *-1 when the request arrived;
\* gclosed: the waiter's peer had hung up when the producer took the waiter;
\* gexpired: the key held an entry past its expiry when the command read it;
\* ggone: the key held no entry past its expiry right after that read;
\* gkind: the kind of the live entry the key held when the request arrived
Loc0 == [cmd |-> "", key |-> "", elems |-> <<>>, i |-> 0, count |-> 0,
         timeout |-> 0, size |-> 0, bcc |-> NoCond, popped |-> <<>>,
         cond |-> NoCond, result |-> NoFrame, id |-> ZeroId, entry |-> <<>>,
         ghead |-> 0, glen |-> 0, gwait |-> NoCond, gclosed |-> FALSE, gnulls |-> {},
         gexpired |-> FALSE, ggone |-> FALSE, gkind |-> "none", start |-> 0, end |-> 0,
         channel |-> "", gdead |-> {},
         args |-> <<>>, data |-> <<>>, parsed |-> NoParse, greqs |-> <<>>, gcut |-> FALSE,
         held |-> <<>>, want |-> "", writing |-> 0, subs |-> {},
         file |-> <<>>, new_store |-> {}, gend |-> 0]

InitWith(b) ==
    /\ DATA_STORE = [k \in Keys |-> Absent]
    /\ STREAMS = [k \in Keys |-> NoStream]
    /\ BLOCKING_CLIENTS = [k \in Keys |-> <<>>]
    /\ BLOCKING_STREAMS = [k \in Keys |-> <<>>]
    /\ CHANNEL_SUBSCRIBERS = [ch \in Channels |-> {}]
    /\ CLIENT_SUBSCRIPTIONS = [c \in Clients |-> {}]
    /\ CLIENT_STATE = [c \in Clients |-> "none"]
    /\ conds = <<>>
    /\ pc = [c \in Clients |-> "idle"]
    /\ loc = [c \in Clients |-> Loc0]
    /\ sock = [c \in Clients |-> <<>>]
    /\ peer = [c \in Clients |-> "open"]
    /\ ncmds = [c \in Clients |-> 0]
    /\ nextElem = 1
    /\ now = 1
    /\ budget = b

Init == InitWith(MaxCmds)

RECURSIVE SumTo(_, _)
SumTo(f, n) == IF n = 0 THEN 0 ELSE f[n] + SumTo(f, n - 1)

\* handle_connection: recv returns a request while the peer is there.
\* Connections are numbered in the order of their first request.
CanRecv(c) ==
    /\ pc[c] = "idle"
    /\ peer[c] = "open"
    /\ SumTo(ncmds, NumClients) < budget
    /\ IF c = 1 THEN TRUE ELSE ncmds[c - 1] > 0

\* the subscribe-mode check at the head of execute_single_command lets the
\* command through (the flag it reads is written by this connection only)
CanRun(c) == CanRecv(c) /\ ~is_client_subscribed(CLIENT_STATE, c)

Goto(c, label, l) ==
    /\ pc' = [pc EXCEPT ![c] = label]
    /\ loc' = [loc EXCEPT ![c] = l]

\* the key holds an entry that is past its expiry
ExpiredAt(store, key, t) == store[key].type # "none" /\ check_expiry(store[key], t)

\* the kind of the live entry of key: "none" when absent or past its expiry
KindAt(store, key, t) == IF ExpiredAt(store, key, t) THEN "none" ELSE store[key].type

\* the history fields of l for a read of key that leaves the store as after
ReadAt(l, key, after) ==
    [l EXCEPT !.gexpired = ExpiredAt(DATA_STORE, key, now),
              !.ggone = ~ExpiredAt(after, key, now),
              !.gkind = IF l.gkind = "none" THEN KindAt(DATA_STORE, key, now) ELSE l.gkind]

\* handle_command: the handler's result is written to the connection
Reply(c) ==
    /\ pc[c] = "reply"
    /\ sock' = sendall(sock, c, loc[c].result)
    /\ Goto(c, "idle", Loc0)
    /\ UNCHANGED <<storeVars, regVars, pubsubVars, conds, peer, ncmds, nextElem, now, budget>>


\* ------------------------------------------------------------------------
\* RPUSH (command_execution.py, 221-285)
\* ------------------------------------------------------------------------
\* the history fields of l once the insertion has left the store as store
Inserted(l, store, key) ==
    LET lst == IF store[key].type = "list" THEN store[key].value ELSE <<>> IN
    [l EXCEPT !.ghead = IF lst = <<>> THEN 0 ELSE lst[1],
              !.glen = Len(lst),
              !.gwait = IF BLOCKING_CLIENTS[key] = <<>> THEN NoCond
                        ELSE BLOCKING_CLIENTS[key][1]]

\* the fresh elements first .. first+n-1
FreshElems(first, n) == [j \in 1..n |-> first + j - 1]

\* the request arrives with n elements, n in counts; existing_list(list_key)
RPUSH_recv(c, counts) ==
    /\ CanRun(c)
    /\ \E key \in Keys, n \in counts :
        /\ nextElem + n - 1 <= MaxElems
        /\ nextElem' = nextElem + n
        /\ DATA_STORE' = StoreAfterGet(DATA_STORE, key, now)
        /\ STREAMS' = SideAfterGet(DATA_STORE, STREAMS, key, now)
        /\ LET l == [Loc0 EXCEPT !.cmd = "RPUSH", !.key = key, !.gnulls = NullWritten,
                                 !.gkind = KindAt(DATA_STORE, key, now),
                                 !.elems = FreshElems(nextElem, n), !.i = 1] IN
           IF existing_list(DATA_STORE, key, now)
           THEN Goto(c, IF n = 0 THEN "rpush_size" ELSE "rpush_append",
                     IF n = 0 THEN Inserted(l, DATA_STORE', key) ELSE l)
           ELSE Goto(c, "rpush_set", l)
    /\ ncmds' = [ncmds EXCEPT ![c] = @ + 1]
    /\ UNCHANGED <<regVars, pubsubVars, conds, sock, peer, now, budget>>

\* append_to_list(list_key, element), once per element
RPUSH_append(c) ==
    /\ pc[c] = "rpush_append"
    /\ DATA_STORE' = _list_push(DATA_STORE, loc[c].key, loc[c].elems[loc[c].i], FALSE, now)
    /\ STREAMS' = SideAfterGet(DATA_STORE, STREAMS, loc[c].key, now)
    /\ Goto(c, IF loc[c].i = Len(loc[c].elems) THEN "rpush_size" ELSE "rpush_append",
            IF loc[c].i = Len(loc[c].elems)
            THEN Inserted([loc[c] EXCEPT !.i = @ + 1], DATA_STORE', loc[c].key)
            ELSE [loc[c] EXCEPT !.i = @ + 1])
    /\ UNCHANGED <<regVars, pubsubVars, conds, sock, peer, ncmds, nextElem, now, budget>>

\* set_list(list_key, elements, None)
RPUSH_set(c) ==
    /\ pc[c] = "rpush_set"
    /\ DATA_STORE' = _set_entry(DATA_STORE, loc[c].key, loc[c].elems, "list", NoExpiry)
    /\ Goto(c, "rpush_size", Inserted(loc[c], DATA_STORE', loc[c].key))
    /\ UNCHANGED <<STREAMS, regVars, pubsubVars, conds, sock, peer, ncmds, nextElem, now, budget>>

\* size_to_report = size_of_list(list_key)
RPUSH_size(c) ==
    /\ pc[c] = "rpush_size"
    /\ DATA_STORE' = StoreAfterGet(DATA_STORE, loc[c].key, now)
    /\ STREAMS' = SideAfterGet(DATA_STORE, STREAMS, loc[c].key, now)
    /\ Goto(c, "rpush_wake", [loc[c] EXCEPT !.size = size_of_list(DATA_STORE, loc[c].key, now)])
    /\ UNCHANGED <<regVars, pubsubVars, conds, sock, peer, ncmds, nextElem, now, budget>>

\* a handoff that reads the head waiter and leaves it in the queue
RPUSH_wake_peek(c) ==
    /\ pc[c] = "rpush_wake"
    /\ LET q == BLOCKING_CLIENTS[loc[c].key] IN
       IF q # <<>>
       THEN Goto(c, "rpush_remove", [loc[c] EXCEPT !.bcc = Head(q),
                    !.gclosed = (peer[conds[Head(q)].client_socket] = "closed")])
       ELSE Goto(c, "reply", [loc[c] EXCEPT !.result = IntegerFrame(loc[c].size)])
    /\ UNCHANGED <<storeVars, regVars, pubsubVars, conds, sock, peer, ncmds, nextElem, now, budget>>

\* with BLOCKING_CLIENTS_LOCK: pop the head waiter of the key, if any
RPUSH_wake(c) ==
    /\ pc[c] = "rpush_wake"
    /\ LET q == BLOCKING_CLIENTS[loc[c].key] IN
       IF q # <<>>
       THEN /\ BLOCKING_CLIENTS' = [BLOCKING_CLIENTS EXCEPT ![loc[c].key] = Tail(q)]
            /\ Goto(c, "rpush_remove", [loc[c] EXCEPT !.bcc = Head(q),
                    !.gclosed = (peer[conds[Head(q)].client_socket] = "closed")])
       ELSE /\ UNCHANGED BLOCKING_CLIENTS
            /\ Goto(c, "reply", [loc[c] EXCEPT !.result = IntegerFrame(loc[c].size)])
    /\ UNCHANGED <<storeVars, BLOCKING_STREAMS, pubsubVars, conds, sock, peer, ncmds, nextElem, now, budget>>

\* popped_elements = remove_elements_from_list(list_key, 1)
RPUSH_remove(c) ==
    /\ pc[c] = "rpush_remove"
    /\ LET r == remove_elements_from_list(DATA_STORE, loc[c].key, 1, now) IN
       /\ DATA_STORE' = r.store
       /\ STREAMS' = SideAfterGet(DATA_STORE, STREAMS, loc[c].key, now)
       /\ IF r.ok /\ r.popped # <<>>
          THEN Goto(c, "rpush_send", [loc[c] EXCEPT !.popped = r.popped])
          ELSE Goto(c, "reply", [loc[c] EXCEPT !.result = IntegerFrame(loc[c].size)])
    /\ UNCHANGED <<regVars, pubsubVars, conds, sock, peer, ncmds, nextElem, now, budget>>

\* blocked_client_socket.sendall(blpop_response)
RPUSH_send(c) ==
    /\ pc[c] = "rpush_send"
    /\ sock' = sendall(sock, conds[loc[c].bcc].client_socket,
                       KeyElemFrame(loc[c].key, loc[c].popped[1], loc[c].bcc))
    /\ Goto(c, "rpush_notify", loc[c])
    /\ UNCHANGED <<storeVars, regVars, pubsubVars, peer, ncmds, nextElem, now, budget>>
    /\ conds' = [conds EXCEPT ![loc[c].bcc].gwritten = TRUE]

\* the thread that waits on Condition w, if there is one
Waiting(w) ==
    /\ pc[conds[w].client_socket] \in {"blpop_wait", "xread_wait"}
    /\ loc[conds[w].client_socket].cond = w

\* Condition.notify: wakes the thread waiting on w; without one it does nothing
notify(w) == IF Waiting(w) THEN [conds EXCEPT ![w].notified = TRUE] ELSE conds

\* with blocked_client_condition: blocked_client_condition.notify()
RPUSH_notify(c) ==
    /\ pc[c] = "rpush_notify"
    /\ conds' = [notify(loc[c].bcc) EXCEPT ![loc[c].bcc].gsignals = @ + 1]
    /\ Goto(c, "reply", [loc[c] EXCEPT !.result = IntegerFrame(loc[c].size)])
    /\ UNCHANGED <<storeVars, regVars, pubsubVars, sock, peer, ncmds, nextElem, now, budget>>

\* ------------------------------------------------------------------------
\* LPUSH (command_execution.py, 171-187)
\* ------------------------------------------------------------------------
LPUSH_recv(c, counts) ==
    /\ CanRun(c)
    /\ \E key \in Keys, n \in counts :
        /\ nextElem + n - 1 <= MaxElems
        /\ nextElem' = nextElem + n
        /\ DATA_STORE' = StoreAfterGet(DATA_STORE, key, now)
        /\ STREAMS' = SideAfterGet(DATA_STORE, STREAMS, key, now)
        /\ LET l == [Loc0 EXCEPT !.cmd = "LPUSH", !.key = key,
                                 !.gkind = KindAt(DATA_STORE, key, now),
                                 !.elems = FreshElems(nextElem, n), !.i = 1] IN
           IF existing_list(DATA_STORE, key, now)
           THEN Goto(c, IF n = 0 THEN "lpush_size" ELSE "lpush_prepend",
                     IF n = 0 THEN Inserted(l, DATA_STORE', key) ELSE l)
           ELSE Goto(c, "lpush_set", l)
    /\ ncmds' = [ncmds EXCEPT ![c] = @ + 1]
    /\ UNCHANGED <<regVars, pubsubVars, conds, sock, peer, now, budget>>

\* prepend_to_list(list_key, element), once per element
LPUSH_prepend(c) ==
    /\ pc[c] = "lpush_prepend"
    /\ DATA_STORE' = _list_push(DATA_STORE, loc[c].key, loc[c].elems[loc[c].i], TRUE, now)
    /\ STREAMS' = SideAfterGet(DATA_STORE, STREAMS, loc[c].key, now)
    /\ Goto(c, IF loc[c].i = Len(loc[c].elems) THEN "lpush_size" ELSE "lpush_prepend",
            IF loc[c].i = Len(loc[c].elems)
            THEN Inserted([loc[c] EXCEPT !.i = @ + 1], DATA_STORE', loc[c].key)
            ELSE [loc[c] EXCEPT !.i = @ + 1])
    /\ UNCHANGED <<regVars, pubsubVars, conds, sock, peer, ncmds, nextElem, now, budget>>

\* set_list(list_key, elements, None)
LPUSH_set(c) ==
    /\ pc[c] = "lpush_set"
    /\ DATA_STORE' = _set_entry(DATA_STORE, loc[c].key, loc[c].elems, "list", NoExpiry)
    /\ Goto(c, "lpush_size", Inserted(loc[c], DATA_STORE', loc[c].key))
    /\ UNCHANGED <<STREAMS, regVars, pubsubVars, conds, sock, peer, ncmds, nextElem, now, budget>>

\* size = size_of_list(list_key); return encode_integer(size)
LPUSH_size(c) ==
    /\ pc[c] = "lpush_size"
    /\ DATA_STORE' = StoreAfterGet(DATA_STORE, loc[c].key, now)
    /\ STREAMS' = SideAfterGet(DATA_STORE, STREAMS, loc[c].key, now)
    /\ Goto(c, "reply", [loc[c] EXCEPT
            !.size = size_of_list(DATA_STORE, loc[c].key, now),
            !.result = IntegerFrame(size_of_list(DATA_STORE, loc[c].key, now))])
    /\ UNCHANGED <<regVars, pubsubVars, conds, sock, peer, ncmds, nextElem, now, budget>>

\* ------------------------------------------------------------------------
\* LPOP (command_execution.py, 197-219)
\* ------------------------------------------------------------------------
\* loc.i is the number of arguments after the key: 0 (no count) or 1
LPOP_recv(c) ==
    /\ CanRun(c)
    /\ \E key \in Keys, nargs \in 0..1, count \in 0..2 :
        /\ nargs = 0 => count = 1
        /\ DATA_STORE' = StoreAfterGet(DATA_STORE, key, now)
        /\ STREAMS' = SideAfterGet(DATA_STORE, STREAMS, key, now)
        /\ LET l == ReadAt([Loc0 EXCEPT !.cmd = "LPOP", !.key = key, !.i = nargs,
                                         !.count = count], key, DATA_STORE') IN
           IF existing_list(DATA_STORE, key, now)
           THEN Goto(c, "lpop_remove", l)
           ELSE Goto(c, "reply", [l EXCEPT !.result = NullBulkFrame])
    /\ ncmds' = [ncmds EXCEPT ![c] = @ + 1]
    /\ UNCHANGED <<regVars, pubsubVars, conds, sock, peer, nextElem, now, budget>>

\* the reply of LPOP for the popped elements
LpopReply(ok, popped) ==
    IF ~ok THEN NullBulkFrame
    ELSE IF Len(popped) = 1 THEN BulkFrame(popped[1])
    ELSE ArrayFrame(popped)

\* list_elements = remove_elements_from_list(list_key, count)
LPOP_remove(c) ==
    /\ pc[c] = "lpop_remove"
    /\ LET r == remove_elements_from_list(DATA_STORE, loc[c].key, loc[c].count, now) IN
       /\ DATA_STORE' = r.store
       /\ STREAMS' = SideAfterGet(DATA_STORE, STREAMS, loc[c].key, now)
       /\ Goto(c, "reply", [ReadAt(loc[c], loc[c].key, r.store)
                                EXCEPT !.popped = r.popped,
                                       !.result = LpopReply(r.ok, r.popped)])
    /\ UNCHANGED <<regVars, pubsubVars, conds, sock, peer, ncmds, nextElem, now, budget>>

\* ------------------------------------------------------------------------
\* BLPOP (command_execution.py, 287-361)
\* ------------------------------------------------------------------------
\* the request arrives; size_of_list(list_key) > 0 selects the fast path
BLPOP_recv(c) ==
    /\ CanRun(c)
    /\ \E key \in Keys, timeout \in 0..1 :
        /\ DATA_STORE' = StoreAfterGet(DATA_STORE, key, now)
        /\ STREAMS' = SideAfterGet(DATA_STORE, STREAMS, key, now)
        /\ Goto(c, IF size_of_list(DATA_STORE, key, now) > 0 THEN "blpop_fast"
                   ELSE "blpop_register",
                [Loc0 EXCEPT !.cmd = "BLPOP", !.key = key, !.timeout = timeout,
                             !.gkind = KindAt(DATA_STORE, key, now)])
    /\ ncmds' = [ncmds EXCEPT ![c] = @ + 1]
    /\ UNCHANGED <<regVars, pubsubVars, conds, sock, peer, nextElem, now, budget>>

\* fast path: remove_elements_from_list(list_key, 1); None falls through to blocking
BLPOP_fast(c) ==
    /\ pc[c] = "blpop_fast"
    /\ LET r == remove_elements_from_list(DATA_STORE, loc[c].key, 1, now) IN
       /\ DATA_STORE' = r.store
       /\ STREAMS' = SideAfterGet(DATA_STORE, STREAMS, loc[c].key, now)
       /\ IF r.ok /\ r.popped # <<>>
          THEN Goto(c, "reply", [loc[c] EXCEPT !.popped = r.popped,
                      !.result = KeyElemFrame(loc[c].key, r.popped[1], NoCond)])
          ELSE Goto(c, "blpop_register", loc[c])
    /\ UNCHANGED <<regVars, pubsubVars, conds, sock, peer, ncmds, nextElem, now, budget>>

\* a Condition with its client_socket; timed_out is history: wait() returned False;
\* gwritten, gsignals are history: a producer has called sendall for this waiter,
\* and the number of notify() calls made on the Condition
NewCond(client, key) ==
    [client_socket |-> client, key |-> key, notified |-> FALSE, timed_out |-> FALSE,
     gwritten |-> FALSE, gsignals |-> 0]

\* a fresh Condition is appended to BLOCKING_CLIENTS[list_key]
BLPOP_register(c) ==
    /\ pc[c] = "blpop_register"
    /\ conds' = Append(conds, NewCond(c, loc[c].key))
    /\ BLOCKING_CLIENTS' = [BLOCKING_CLIENTS EXCEPT ![loc[c].key] = Append(@, Len(conds) + 1)]
    /\ Goto(c, "blpop_enter", [loc[c] EXCEPT !.cond = Len(conds) + 1])
    /\ UNCHANGED <<storeVars, BLOCKING_STREAMS, pubsubVars, sock, peer, ncmds, nextElem, now, budget>>

\* with client_condition: the thread enters wait()
BLPOP_enter(c) ==
    /\ pc[c] = "blpop_enter"
    /\ Goto(c, "blpop_wait", loc[c])
    /\ UNCHANGED <<storeVars, regVars, pubsubVars, conds, sock, peer, ncmds, nextElem, now, budget>>

\* wait() returns True: the producer has written the reply, the handler returns True
BLPOP_notified(c) ==
    /\ pc[c] = "blpop_wait"
    /\ conds[loc[c].cond].notified
    /\ Goto(c, "idle", Loc0)
    /\ UNCHANGED <<storeVars, regVars, pubsubVars, conds, sock, peer, ncmds, nextElem, now, budget>>

\* wait(timeout) returns False: the timeout ran out before a notify
BLPOP_timeout(c) ==
    /\ pc[c] = "blpop_wait"
    /\ loc[c].timeout # 0
    /\ ~conds[loc[c].cond].notified
    /\ conds' = [conds EXCEPT ![loc[c].cond].timed_out = TRUE]
    /\ Goto(c, "blpop_cleanup", loc[c])
    /\ UNCHANGED <<storeVars, regVars, pubsubVars, sock, peer, ncmds, nextElem, now, budget>>

\* a timeout that leaves the Condition in the queue
RemoveFirst_keep(q, w) == q

\* list.remove: the queue without its first occurrence of w
RemoveFirst(q, w) ==
    IF \E j \in 1..Len(q) : q[j] = w
    THEN LET j == CHOOSE j \in 1..Len(q) : q[j] = w /\ \A h \in 1..(j - 1) : q[h] # w IN
         SubSeq(q, 1, j - 1) \o SubSeq(q, j + 1, Len(q))
    ELSE q

\* after the timeout: the Condition leaves the queue if it is still there; *-1
BLPOP_cleanup(c) ==
    /\ pc[c] = "blpop_cleanup"
    /\ BLOCKING_CLIENTS' = [BLOCKING_CLIENTS EXCEPT ![loc[c].key] = RemoveFirst(@, loc[c].cond)]
    /\ Goto(c, "reply", [loc[c] EXCEPT !.result = NullArrayFrame(loc[c].cond)])
    /\ UNCHANGED <<storeVars, BLOCKING_STREAMS, pubsubVars, conds, sock, peer, ncmds, nextElem, now, budget>>

\* ------------------------------------------------------------------------
\* Streams (datastore.py, 188-245)
\* ------------------------------------------------------------------------
\* s.split('-')
RECURSIVE Split(_)
Split(s) ==
    IF \A i \in 1..Len(s) : s[i] # "-" THEN <<s>>
    ELSE LET k == CHOOSE i \in 1..Len(s) :
                      s[i] = "-" /\ \A h \in 1..(i - 1) : s[h] # "-" IN
         <<SubSeq(s, 1, k - 1)>> \o Split(SubSeq(s, k + 1, Len(s)))

\* t, s = map(int, id.split('-')): [ok, ms, seq]; ok = FALSE is ValueError
ParseId(id) ==
    LET parts == Split(id) IN
    IF Len(parts) = 2 /\ StrToInt(parts[1]).ok /\ StrToInt(parts[2]).ok
    THEN [ok |-> TRUE, ms |-> StrToInt(parts[1]).n, seq |-> StrToInt(parts[2]).n]
    ELSE [ok |-> FALSE, ms |-> 0, seq |-> 0]

\* f"{ts}-{seq}"
FormatId(ts, seq) == IntToStr(ts) \o <<"-">> \o IntToStr(seq)

\* compare_stream_ids: ids that do not parse compare as equal
compare_stream_ids(id1, id2) ==
    LET a == ParseId(id1)
        b == ParseId(id2) IN
    IF ~a.ok \/ ~b.ok THEN 0
    ELSE IF a.ms # b.ms THEN (IF a.ms > b.ms THEN 1 ELSE -1)
    ELSE IF a.seq # b.seq THEN (IF a.seq > b.seq THEN 1 ELSE -1)
    ELSE 0

\* the id arguments of XADD: "*", "<ms>-*" and "<ms>-<seq>"
AutoId == <<"*">>
PartialId(ms) == IntToStr(ms) \o <<"-", "*">>
ExplicitId(ms, seq) == FormatId(ms, seq)
\* "00-0": zero written with a leading zero
PaddedZeroId == <<"0", "0", "-", "0">>
\* an id argument that is no id at all
GarbageId == <<"a">>

ErrSmaller == "The ID specified in XADD is equal or smaller than the target stream top item"
ErrZero == "The ID specified in XADD must be greater than 0-0"

\* get_stream_max_id
get_stream_max_id(streams, key) ==
    IF streams[key].has /\ streams[key].entries # <<>>
    THEN streams[key].entries[Len(streams[key].entries)].id ELSE ZeroId

\* xadd with the comparison against the top item left out
xadd_unchecked(store, streams, key, id_str, fields, t) ==
    LET st1 == [streams EXCEPT ![key].has = TRUE]
        s1 == IF streams[key].has THEN store
              ELSE _set_entry(store, key, <<>>, "stream", NoExpiry)
        id == IF id_str = AutoId THEN FormatId(t, 0)
              ELSE IF Len(id_str) >= 2 /\ SubSeq(id_str, Len(id_str) - 1, Len(id_str)) = <<"-", "*">>
              THEN FormatId(StrToInt(Split(id_str)[1]).n, 0)
              ELSE id_str IN
    [err |-> "", raised |-> FALSE, id |-> id, store |-> s1,
     streams |-> [st1 EXCEPT ![key].entries = Append(@, [id |-> id, fields |-> fields])]]

\* xadd: [err, raised, id, store, streams]; the entry was appended when err = ""
\* and raised = FALSE; raised: int() raised ValueError inside xadd
xadd(store, streams, key, id_str, fields, t) ==
    LET isnew == ~streams[key].has
        st1 == IF isnew THEN [streams EXCEPT ![key] = [has |-> TRUE, entries |-> <<>>]]
               ELSE streams
        s1 == IF isnew THEN _set_entry(store, key, <<>>, "stream", NoExpiry) ELSE store
        entries == st1[key].entries
        last_id == IF entries # <<>> THEN entries[Len(entries)].id ELSE ZeroId
        last == ParseId(last_id)
        fail(text) == [err |-> text, raised |-> FALSE, id |-> ZeroId,
                       store |-> s1, streams |-> st1]
        raise == [err |-> "", raised |-> TRUE, id |-> ZeroId, store |-> s1, streams |-> st1]
        done(id) == [err |-> "", raised |-> FALSE, id |-> id, store |-> s1,
                     streams |-> [st1 EXCEPT ![key].entries =
                                     Append(@, [id |-> id, fields |-> fields])]]
    IN
    IF id_str = AutoId
    THEN IF ~last.ok THEN raise
         ELSE IF t > last.ms THEN done(FormatId(t, 0))
         ELSE done(FormatId(last.ms, last.seq + 1))
    ELSE IF Len(id_str) >= 2 /\ SubSeq(id_str, Len(id_str) - 1, Len(id_str)) = <<"-", "*">>
    THEN LET ts == StrToInt(Split(id_str)[1]) IN
         IF ~ts.ok \/ ~last.ok THEN raise
         ELSE IF ts.n > last.ms THEN done(FormatId(ts.n, 0))
         ELSE IF ts.n = last.ms THEN done(FormatId(ts.n, last.seq + 1))
         ELSE fail(ErrSmaller)
    ELSE IF compare_stream_ids(id_str, last_id) <= 0 /\ last_id # ZeroId THEN fail(ErrSmaller)
         ELSE IF id_str = ZeroId THEN fail(ErrZero)
         ELSE done(id_str)

\* the subsequence of the entries with an id greater than last_id
RECURSIVE EntriesAfter(_, _)
EntriesAfter(entries, last_id) ==
    IF entries = <<>> THEN <<>>
    ELSE IF compare_stream_ids(Head(entries).id, last_id) > 0
         THEN <<Head(entries)>> \o EntriesAfter(Tail(entries), last_id)
         ELSE EntriesAfter(Tail(entries), last_id)

\* xread for one key: the matching entries (none when the key has no stream)
xread(streams, key, last_id) ==
    IF ~streams[key].has THEN <<>> ELSE EntriesAfter(streams[key].entries, last_id)

\* the range arguments "-" and "+"
MinId == <<"-">>
MaxId == <<"+">>

\* the subsequence of the entries with start <= id <= end
RECURSIVE EntriesWithin(_, _, _)
EntriesWithin(entries, start, end) ==
    IF entries = <<>> THEN <<>>
    ELSE LET e == Head(entries)
             rest == EntriesWithin(Tail(entries), start, end) IN
         IF /\ start = MinId \/ compare_stream_ids(e.id, start) >= 0
            /\ end = MaxId \/ compare_stream_ids(e.id, end) <= 0
         THEN <<e>> \o rest ELSE rest

\* xrange(key, start, end)
xrange(streams, key, start, end) ==
    IF ~streams[key].has THEN <<>> ELSE EntriesWithin(streams[key].entries, start, end)

\* delete_data_entry: [n, store, streams]; the stream body goes only together
\* with an entry of DATA_STORE
delete_data_entry(store, streams, key) ==
    IF store[key].type # "none"
    THEN [n |-> 1, store |-> [store EXCEPT ![key] = Absent],
          streams |-> [streams EXCEPT ![key] = NoStream]]
    ELSE [n |-> 0, store |-> store, streams |-> streams]

\* ------------------------------------------------------------------------
\* XADD (command_execution.py, 486-543)
\* ------------------------------------------------------------------------
\* the request arrives with an id argument of ids; xadd(key, entry_id, fields).
\* xadd returns an error as bytes and the new id as str, and the handler tests
\* new_entry_id_or_error.startswith(b'-'): on a str that raises TypeError, so
\* after every append the thread ends: no waiter is looked for, nothing is
\* replied.  gwait: the head of the waiter queue when xadd ran.
XADD_recv(c, ids) ==
    /\ CanRun(c)
    /\ \E key \in Keys, id_str \in ids :
        /\ nextElem <= MaxElems
        /\ nextElem' = nextElem + 1
        /\ LET r == xadd(DATA_STORE, STREAMS, key, id_str, nextElem, now)
               q == BLOCKING_STREAMS[key]
               l == [Loc0 EXCEPT !.cmd = "XADD", !.key = key, !.id = r.id,
                                 !.gnulls = NullWritten,
                                 !.gkind = KindAt(DATA_STORE, key, now),
                                 !.gwait = IF q # <<>> THEN Head(q) ELSE NoCond] IN
           /\ DATA_STORE' = r.store
           /\ STREAMS' = r.streams
           /\ IF r.raised THEN Goto(c, "crashed", l)
              ELSE IF r.err # ""
              THEN Goto(c, "reply", [l EXCEPT !.result = ErrorFrame(r.err)])
              ELSE Goto(c, "crashed",
                        [l EXCEPT !.entry = <<[id |-> r.id, fields |-> nextElem]>>])
    /\ ncmds' = [ncmds EXCEPT ![c] = @ + 1]
    /\ UNCHANGED <<regVars, pubsubVars, conds, sock, peer, now, budget>>

\* The handoff of XADD (514-541) follows the test that raises: the four steps
\* below are the code as written, and no behaviour of the server reaches them.
\* with BLOCKING_STREAMS_LOCK: pop the head waiter of the key, if any
XADD_wake(c) ==
    /\ pc[c] = "xadd_wake"
    /\ LET q == BLOCKING_STREAMS[loc[c].key] IN
       IF q # <<>>
       THEN /\ BLOCKING_STREAMS' = [BLOCKING_STREAMS EXCEPT ![loc[c].key] = Tail(q)]
            /\ Goto(c, "xadd_entry", [loc[c] EXCEPT !.bcc = Head(q),
                    !.gclosed = (peer[conds[Head(q)].client_socket] = "closed")])
       ELSE /\ UNCHANGED BLOCKING_STREAMS
            /\ Goto(c, "reply", [loc[c] EXCEPT !.result = IdFrame(loc[c].id)])
    /\ UNCHANGED <<storeVars, BLOCKING_CLIENTS, pubsubVars, conds, sock, peer, ncmds, nextElem, now, budget>>

\* with DATA_LOCK: new_entry = STREAMS[key][-1], the last entry of the stream
XADD_entry(c) ==
    /\ pc[c] = "xadd_entry"
    /\ LET st == STREAMS[loc[c].key] IN
       IF st.has /\ st.entries # <<>>
       THEN Goto(c, "xadd_send", [loc[c] EXCEPT !.entry = <<st.entries[Len(st.entries)]>>])
       ELSE Goto(c, "reply", [loc[c] EXCEPT !.result = IdFrame(loc[c].id)])
    /\ UNCHANGED <<storeVars, regVars, pubsubVars, conds, sock, peer, ncmds, nextElem, now, budget>>

\* blocked_client_socket.sendall(xread_block_response)
XADD_send(c) ==
    /\ pc[c] = "xadd_send"
    /\ sock' = sendall(sock, conds[loc[c].bcc].client_socket,
                       XreadFrame(loc[c].key, loc[c].entry, loc[c].bcc))
    /\ Goto(c, "xadd_notify", loc[c])
    /\ UNCHANGED <<storeVars, regVars, pubsubVars, peer, ncmds, nextElem, now, budget>>
    /\ conds' = [conds EXCEPT ![loc[c].bcc].gwritten = TRUE]

\* with blocked_client_condition: blocked_client_condition.notify()
XADD_notify(c) ==
    /\ pc[c] = "xadd_notify"
    /\ conds' = [notify(loc[c].bcc) EXCEPT ![loc[c].bcc].gsignals = @ + 1]
    /\ Goto(c, "reply", [loc[c] EXCEPT !.result = IdFrame(loc[c].id)])
    /\ UNCHANGED <<storeVars, regVars, pubsubVars, sock, peer, ncmds, nextElem, now, budget>>

\* ------------------------------------------------------------------------
\* XREAD [BLOCK ms] STREAMS key id (command_execution.py, 571-682)
\* ------------------------------------------------------------------------
NoBlock == -1

\* the request arrives; "$" is resolved with get_stream_max_id(key).
\* dollar: the id argument is "$"; otherwise it is 0-0.
XREAD_recv(c, blocks) ==
    /\ CanRun(c)
    /\ \E key \in Keys, timeout \in blocks, dollar \in BOOLEAN :
        Goto(c, "xread_read",
             [Loc0 EXCEPT !.cmd = "XREAD", !.key = key, !.timeout = timeout,
                          !.id = IF dollar THEN get_stream_max_id(STREAMS, key)
                                 ELSE ZeroId])
    /\ ncmds' = [ncmds EXCEPT ![c] = @ + 1]
    /\ UNCHANGED <<storeVars, regVars, pubsubVars, conds, sock, peer, nextElem, now, budget>>

\* the id argument "$"
DollarId == <<"$">>

\* xread (datastore.py, 234-238): inside "with DATA_LOCK", a last_id that is
\* "$" for a key of STREAMS makes xread call get_stream_max_id, which enters
\* "with DATA_LOCK" itself
xread_reenters(streams, key, last_id) == streams[key].has /\ last_id = DollarId

\* no thread is inside a "with DATA_LOCK" block between two steps
DataLockFree == \A c \in Clients : \A i \in 1..Len(loc[c].held) : loc[c].held[i] # "DATA_LOCK"

\* stream_data = xread(keys, resolved_ids): reply, or go on to block.  Every
\* other step takes and releases its one mutex within the step (held stays
\* empty); here the thread can stop inside xread, holding DATA_LOCK (held) and
\* waiting in the acquire of get_stream_max_id (want): threading.Lock is not
\* re-entrant, so the thread stays there and the mutex is never released.
XREAD_read(c) ==
    /\ pc[c] = "xread_read"
    /\ LET data == xread(STREAMS, loc[c].key, loc[c].id) IN
       IF xread_reenters(STREAMS, loc[c].key, loc[c].id)
       THEN Goto(c, "xread_max", [loc[c] EXCEPT !.held = <<"DATA_LOCK">>,
                                                !.want = "DATA_LOCK"])
       ELSE IF data # <<>>
       THEN Goto(c, "reply", [loc[c] EXCEPT !.result = XreadFrame(loc[c].key, data, NoCond)])
       ELSE IF loc[c].timeout = NoBlock
       THEN Goto(c, "reply", [loc[c] EXCEPT !.result = ArrayFrame(<<>>)])
       ELSE Goto(c, "xread_register", loc[c])
    /\ UNCHANGED <<storeVars, regVars, pubsubVars, conds, sock, peer, ncmds, nextElem, now, budget>>

\* a fresh Condition is appended to BLOCKING_STREAMS[key_to_block]
XREAD_register(c) ==
    /\ pc[c] = "xread_register"
    /\ conds' = Append(conds, NewCond(c, loc[c].key))
    /\ BLOCKING_STREAMS' = [BLOCKING_STREAMS EXCEPT ![loc[c].key] = Append(@, Len(conds) + 1)]
    /\ Goto(c, "xread_enter", [loc[c] EXCEPT !.cond = Len(conds) + 1])
    /\ UNCHANGED <<storeVars, BLOCKING_CLIENTS, pubsubVars, sock, peer, ncmds, nextElem, now, budget>>

\* with client_condition: the thread enters wait()
XREAD_enter(c) ==
    /\ pc[c] = "xread_enter"
    /\ Goto(c, "xread_wait", loc[c])
    /\ UNCHANGED <<storeVars, regVars, pubsubVars, conds, sock, peer, ncmds, nextElem, now, budget>>

\* wait() returns True: XADD has written the reply, the handler returns None
XREAD_notified(c) ==
    /\ pc[c] = "xread_wait"
    /\ conds[loc[c].cond].notified
    /\ Goto(c, "idle", Loc0)
    /\ UNCHANGED <<storeVars, regVars, pubsubVars, conds, sock, peer, ncmds, nextElem, now, budget>>

\* wait(timeout) returns False
XREAD_timeout(c) ==
    /\ pc[c] = "xread_wait"
    /\ loc[c].timeout # 0
    /\ ~conds[loc[c].cond].notified
    /\ conds' = [conds EXCEPT ![loc[c].cond].timed_out = TRUE]
    /\ Goto(c, "xread_cleanup", loc[c])
    /\ UNCHANGED <<storeVars, regVars, pubsubVars, sock, peer, ncmds, nextElem, now, budget>>

\* after the timeout: the Condition leaves the queue if it is still there; *-1
XREAD_cleanup(c) ==
    /\ pc[c] = "xread_cleanup"
    /\ BLOCKING_STREAMS' = [BLOCKING_STREAMS EXCEPT ![loc[c].key] = RemoveFirst(@, loc[c].cond)]
    /\ Goto(c, "reply", [loc[c] EXCEPT !.result = NullArrayFrame(loc[c].cond)])
    /\ UNCHANGED <<storeVars, BLOCKING_CLIENTS, pubsubVars, conds, sock, peer, ncmds, nextElem, now, budget>>

\* ------------------------------------------------------------------------
\* INCR (command_execution.py, 684-699)
\* ------------------------------------------------------------------------
\* increment_key_value(key).  An error of the helper is bytes, and
\* error_message.encode() raises AttributeError: the thread ends without a reply.
\* encode_integer(new_value): the value, or its text beyond SmallLen digits
IncrFrame(r) ==
    IF Len(StrToBig(r.text).mag) <= SmallLen THEN IntegerFrame(r.val)
    ELSE [IntegerFrame(0) EXCEPT !.value = r.text]

INCR_recv(c) ==
    /\ CanRun(c)
    /\ \E key \in Keys :
        LET r == _incr_generic(DATA_STORE, key, 1, now)
            l == ReadAt([Loc0 EXCEPT !.cmd = "INCR", !.key = key], key, r.store) IN
        /\ DATA_STORE' = r.store
        /\ IF r.err # "" THEN Goto(c, "crashed", l)
           ELSE Goto(c, "reply", [l EXCEPT !.result = IncrFrame(r)])
    /\ ncmds' = [ncmds EXCEPT ![c] = @ + 1]
    /\ UNCHANGED <<STREAMS, regVars, pubsubVars, conds, sock, peer, nextElem, now, budget>>

\* INCRBY key amount: int(arguments[1]), then increment_key_value_by; the
\* error of _incr_generic is bytes, and error_msg.encode() raises
INCRBY_recv(c, amounts) ==
    /\ CanRun(c)
    /\ \E key \in Keys, arg \in amounts :
        LET amount == StrToInt(arg)
            r == _incr_generic(DATA_STORE, key, amount.n, now)
            l == [Loc0 EXCEPT !.cmd = "INCRBY", !.key = key, !.count = amount.n] IN
        IF ~amount.ok
        THEN /\ DATA_STORE' = DATA_STORE
             /\ Goto(c, "reply", [l EXCEPT !.result = ErrorFrame(ErrNotInteger)])
        ELSE /\ DATA_STORE' = r.store
             /\ IF r.err # "" THEN Goto(c, "crashed", ReadAt(l, key, r.store))
                ELSE Goto(c, "reply", [ReadAt(l, key, r.store) EXCEPT !.result = IncrFrame(r)])
    /\ ncmds' = [ncmds EXCEPT ![c] = @ + 1]
    /\ UNCHANGED <<STREAMS, regVars, pubsubVars, conds, sock, peer, nextElem, now, budget>>

\* ------------------------------------------------------------------------
\* SET, GET, TYPE, KEYS, LLEN, LRANGE (command_execution.py, 107-195, 394-484)
\* ------------------------------------------------------------------------
\* SET key value [PX ms]: set_string(key, value, now + ms); px = 0: no option
SET_keys(c, keys) ==
    /\ CanRun(c)
    /\ \E key \in keys, value \in {<<"7">>}, px \in 0..1 :
        /\ DATA_STORE' = _set_entry(DATA_STORE, key, value, "string",
                                    IF px = 0 THEN NoExpiry ELSE now + px)
        /\ Goto(c, "reply", [Loc0 EXCEPT !.cmd = "SET", !.key = key,
                                         !.result = SimpleFrame("OK")])
    /\ ncmds' = [ncmds EXCEPT ![c] = @ + 1]
    /\ UNCHANGED <<STREAMS, regVars, pubsubVars, conds, sock, peer, nextElem, now, budget>>

SET_recv(c) == SET_keys(c, Keys)

\* GET key: get_data_entry(key)
GET_recv(c) ==
    /\ CanRun(c)
    /\ \E key \in Keys :
        LET entry == get_valid_entry(DATA_STORE, key, "", now)
            after == StoreAfterGet(DATA_STORE, key, now)
            l == ReadAt([Loc0 EXCEPT !.cmd = "GET", !.key = key], key, after) IN
        /\ DATA_STORE' = after
        /\ STREAMS' = SideAfterGet(DATA_STORE, STREAMS, key, now)
        /\ Goto(c, "reply", [l EXCEPT !.result =
                IF entry.type = "none" THEN NullBulkFrame
                ELSE IF entry.type # "string" THEN ErrorFrame(ErrWrongType)
                ELSE StringFrame(entry.value)])
    /\ ncmds' = [ncmds EXCEPT ![c] = @ + 1]
    /\ UNCHANGED <<regVars, pubsubVars, conds, sock, peer, nextElem, now, budget>>

\* TYPE key: get_data_entry(key)
TYPE_recv(c) ==
    /\ CanRun(c)
    /\ \E key \in Keys :
        LET entry == get_valid_entry(DATA_STORE, key, "", now)
            after == StoreAfterGet(DATA_STORE, key, now)
            l == ReadAt([Loc0 EXCEPT !.cmd = "TYPE", !.key = key], key, after) IN
        /\ DATA_STORE' = after
        /\ STREAMS' = SideAfterGet(DATA_STORE, STREAMS, key, now)
        /\ Goto(c, "reply", [l EXCEPT !.result = TypeFrame(entry.type)])
    /\ ncmds' = [ncmds EXCEPT ![c] = @ + 1]
    /\ UNCHANGED <<regVars, pubsubVars, conds, sock, peer, nextElem, now, budget>>

\* KEYS pattern: the keys of DATA_STORE that match; star: the pattern is "*",
\* otherwise it is the key itself
KEYS_recv(c) ==
    /\ CanRun(c)
    /\ \E key \in Keys, star \in BOOLEAN :
        LET l == ReadAt([Loc0 EXCEPT !.cmd = "KEYS", !.key = key], key, DATA_STORE) IN
        Goto(c, "reply", [l EXCEPT !.result =
            KeysFrame({k \in Keys : DATA_STORE[k].type # "none" /\ (star \/ k = key)})])
    /\ ncmds' = [ncmds EXCEPT ![c] = @ + 1]
    /\ UNCHANGED <<storeVars, regVars, pubsubVars, conds, sock, peer, nextElem, now, budget>>

\* LLEN key: size_of_list(key)
LLEN_recv(c) ==
    /\ CanRun(c)
    /\ \E key \in Keys :
        LET after == StoreAfterGet(DATA_STORE, key, now)
            l == ReadAt([Loc0 EXCEPT !.cmd = "LLEN", !.key = key], key, after) IN
        /\ DATA_STORE' = after
        /\ STREAMS' = SideAfterGet(DATA_STORE, STREAMS, key, now)
        /\ Goto(c, "reply", [l EXCEPT !.result =
                IntegerFrame(size_of_list(DATA_STORE, key, now))])
    /\ ncmds' = [ncmds EXCEPT ![c] = @ + 1]
    /\ UNCHANGED <<regVars, pubsubVars, conds, sock, peer, nextElem, now, budget>>

\* LRANGE key start end: lrange_rtn(key, start, end)
LRANGE_recv(c, starts, ends) ==
    /\ CanRun(c)
    /\ \E key \in Keys, start \in starts, end \in ends :
        LET after == StoreAfterGet(DATA_STORE, key, now)
            l == ReadAt([Loc0 EXCEPT !.cmd = "LRANGE", !.key = key, !.start = start,
                                     !.end = end], key, after) IN
        /\ DATA_STORE' = after
        /\ STREAMS' = SideAfterGet(DATA_STORE, STREAMS, key, now)
        /\ Goto(c, "reply", [l EXCEPT !.result =
                ArrayFrame(lrange_rtn(DATA_STORE, key, start, end, now))])
    /\ ncmds' = [ncmds EXCEPT ![c] = @ + 1]
    /\ UNCHANGED <<regVars, pubsubVars, conds, sock, peer, nextElem, now, budget>>

\* XRANGE key start end: the array of the entries of xrange
XrangeFrame(entries) == [NoFrame EXCEPT !.kind = "xrange", !.entries = entries]

XRANGE_recv(c, starts, ends) ==
    /\ CanRun(c)
    /\ \E key \in Keys, start \in starts, end \in ends :
        Goto(c, "reply", [Loc0 EXCEPT !.cmd = "XRANGE", !.key = key,
                                      !.result = XrangeFrame(xrange(STREAMS, key, start, end))])
    /\ ncmds' = [ncmds EXCEPT ![c] = @ + 1]
    /\ UNCHANGED <<storeVars, regVars, pubsubVars, conds, sock, peer, nextElem, now, budget>>

\* DEL key [key ...]: delete_data_entry for the first key; loc.size is the
\* number of keys named, loc.i the next one, loc.count the keys deleted
DEL_recv(c, counts) ==
    /\ CanRun(c)
    /\ \E key \in Keys, n \in counts :
        LET r == delete_data_entry(DATA_STORE, STREAMS, key)
            l == [Loc0 EXCEPT !.cmd = "DEL", !.key = key, !.size = n, !.i = 2,
                              !.count = r.n] IN
        /\ DATA_STORE' = r.store
        /\ STREAMS' = r.streams
        /\ IF n = 1 THEN Goto(c, "reply", [l EXCEPT !.result = IntegerFrame(r.n)])
           ELSE Goto(c, "del_next", l)
    /\ ncmds' = [ncmds EXCEPT ![c] = @ + 1]
    /\ UNCHANGED <<regVars, pubsubVars, conds, sock, peer, nextElem, now, budget>>

\* deleted_count += delete_data_entry(key), for the next key named
DEL_next(c) ==
    /\ pc[c] = "del_next"
    /\ LET r == delete_data_entry(DATA_STORE, STREAMS, loc[c].key)
           l == [loc[c] EXCEPT !.i = @ + 1, !.count = @ + r.n] IN
       /\ DATA_STORE' = r.store
       /\ STREAMS' = r.streams
       /\ IF loc[c].i = loc[c].size
          THEN Goto(c, "reply", [l EXCEPT !.result = IntegerFrame(l.count)])
          ELSE Goto(c, "del_next", l)
    /\ UNCHANGED <<regVars, pubsubVars, conds, sock, peer, ncmds, nextElem, now, budget>>

\* the wall clock advances
Tick ==
    /\ now < MaxTime
    /\ now' = now + 1
    /\ UNCHANGED <<storeVars, regVars, pubsubVars, conds, pc, loc, sock, peer, ncmds, nextElem, budget>>

\* ------------------------------------------------------------------------
\* Pub/sub (command_execution.py, 94-101, 412-464)
\* ------------------------------------------------------------------------
Whitelist == {"SUBSCRIBE", "UNSUBSCRIBE", "PING", "QUIT", "PSUBSCRIBE", "PUNSUBSCRIBE"}

ErrSubscribed == "Can't execute when client is subscribed"

\* a command outside the whitelist arrives on a subscribed connection
Rejected_recv(c, cmds) ==
    /\ CanRecv(c)
    /\ is_client_subscribed(CLIENT_STATE, c)
    /\ \E cmd \in cmds \ Whitelist :
        Goto(c, "reply", [Loc0 EXCEPT !.cmd = cmd, !.result = ErrorFrame(ErrSubscribed)])
    /\ ncmds' = [ncmds EXCEPT ![c] = @ + 1]
    /\ UNCHANGED <<storeVars, regVars, pubsubVars, conds, sock, peer, nextElem, now, budget>>

\* PING: PONG, or the array ["pong", ""] on a subscribed connection
PING_recv(c) ==
    /\ CanRecv(c)
    /\ Goto(c, "reply", [Loc0 EXCEPT !.cmd = "PING", !.result =
            IF is_client_subscribed(CLIENT_STATE, c)
            THEN SubscribeFrame("pong", "", 0) ELSE SimpleFrame("PONG")])
    /\ ncmds' = [ncmds EXCEPT ![c] = @ + 1]
    /\ UNCHANGED <<storeVars, regVars, pubsubVars, conds, sock, peer, nextElem, now, budget>>

\* SUBSCRIBE channel: subscribe(client, channel)
SUBSCRIBE_recv(c) ==
    /\ CanRecv(c)
    /\ \E channel \in Channels :
        LET r == subscribe(CHANNEL_SUBSCRIBERS, CLIENT_SUBSCRIPTIONS, CLIENT_STATE, c, channel) IN
        /\ CHANNEL_SUBSCRIBERS' = r.subs
        /\ CLIENT_SUBSCRIPTIONS' = r.chans
        /\ CLIENT_STATE' = r.state
        /\ Goto(c, "subscribe_count", [Loc0 EXCEPT !.cmd = "SUBSCRIBE", !.channel = channel])
    /\ ncmds' = [ncmds EXCEPT ![c] = @ + 1]
    /\ UNCHANGED <<storeVars, regVars, conds, sock, peer, nextElem, now, budget>>

\* num_subscriptions = num_client_subscriptions(client)
SUBSCRIBE_count(c) ==
    /\ pc[c] = "subscribe_count"
    /\ Goto(c, "reply", [loc[c] EXCEPT !.result =
            SubscribeFrame("subscribe", loc[c].channel,
                           num_client_subscriptions(CLIENT_SUBSCRIPTIONS, c))])
    /\ UNCHANGED <<storeVars, regVars, pubsubVars, conds, sock, peer, ncmds, nextElem, now, budget>>

\* UNSUBSCRIBE channel: unsubscribe(client, channel)
UNSUBSCRIBE_recv(c) ==
    /\ CanRecv(c)
    /\ \E channel \in Channels :
        LET r == unsubscribe(CHANNEL_SUBSCRIBERS, CLIENT_SUBSCRIPTIONS, CLIENT_STATE, c, channel) IN
        /\ CHANNEL_SUBSCRIBERS' = r.subs
        /\ CLIENT_SUBSCRIPTIONS' = r.chans
        /\ CLIENT_STATE' = r.state
        /\ Goto(c, "unsubscribe_count", [Loc0 EXCEPT !.cmd = "UNSUBSCRIBE", !.channel = channel])
    /\ ncmds' = [ncmds EXCEPT ![c] = @ + 1]
    /\ UNCHANGED <<storeVars, regVars, conds, sock, peer, nextElem, now, budget>>

\* num_subscriptions = num_client_subscriptions(client)
UNSUBSCRIBE_count(c) ==
    /\ pc[c] = "unsubscribe_count"
    /\ Goto(c, "reply", [loc[c] EXCEPT !.result =
            SubscribeFrame("unsubscribe", loc[c].channel,
                           num_client_subscriptions(CLIENT_SUBSCRIPTIONS, c))])
    /\ UNCHANGED <<storeVars, regVars, pubsubVars, conds, sock, peer, ncmds, nextElem, now, budget>>

\* the connection's thread is over and its socket is closed by the server
Ended(c) == pc[c] \in {"closed", "ended", "crashed"}

\* the message frame appended to the socket of every client of to
RECURSIVE SendEach(_, _, _)
SendEach(s, to, frame) ==
    IF to = {} THEN s
    ELSE LET x == CHOOSE y \in to : TRUE IN
         SendEach(IF peer[x] = "open" THEN [s EXCEPT ![x] = Append(@, frame)] ELSE s,
                  to \ {x}, frame)

\* PUBLISH channel message: with BLOCKING_CLIENTS_LOCK, sendall to every
\* subscriber of the channel; a closed socket raises and is not counted.
\* gdead: the subscribers written to although their connection had ended.
PUBLISH_recv(c) ==
    /\ CanRun(c)
    /\ \E channel \in Channels :
        LET subscribers == CHANNEL_SUBSCRIBERS[channel]
            live == {x \in subscribers : ~Ended(x)} IN
        /\ sock' = SendEach(sock, live, MessageFrame(channel))
        /\ Goto(c, "reply", [Loc0 EXCEPT !.cmd = "PUBLISH", !.channel = channel,
                                         !.gdead = subscribers \ live,
                                         !.result = IntegerFrame(Cardinality(live))])
    /\ ncmds' = [ncmds EXCEPT ![c] = @ + 1]
    /\ UNCHANGED <<storeVars, regVars, pubsubVars, conds, peer, nextElem, now, budget>>

\* ------------------------------------------------------------------------
\* Socket writes in two steps: a thread is inside sendall from the call to the
\* return (context.py, 10-12: no mutex around conn.sendall).  writing: the
\* connection whose socket the thread is inside sendall for, 0 for none.
\* ------------------------------------------------------------------------
\* no thread is inside a "with BLOCKING_CLIENTS_LOCK" block between two steps
RegistryLockFree ==
    \A c \in Clients : \A i \in 1..Len(loc[c].held) : loc[c].held[i] # "BLOCKING_CLIENTS_LOCK"

\* handle_command: client.sendall(result) is entered
Reply_begin(c) ==
    /\ pc[c] = "reply"
    /\ Goto(c, "reply_sending", [loc[c] EXCEPT !.writing = c])
    /\ UNCHANGED <<storeVars, regVars, pubsubVars, conds, sock, peer, ncmds, nextElem, now, budget>>

\* handle_command: client.sendall(result) returns
Reply_end(c) ==
    /\ pc[c] = "reply_sending"
    /\ sock' = sendall(sock, c, loc[c].result)
    /\ Goto(c, "idle", Loc0)
    /\ UNCHANGED <<storeVars, regVars, pubsubVars, conds, peer, ncmds, nextElem, now, budget>>

\* PUBLISH channel message: "with BLOCKING_CLIENTS_LOCK" is entered and the
\* loop over CHANNEL_SUBSCRIBERS[channel] starts (subs: subscribers to go)
PUBLISH_begin(c) ==
    /\ CanRun(c)
    /\ RegistryLockFree
    /\ \E channel \in Channels :
        Goto(c, "publish_send",
             [Loc0 EXCEPT !.cmd = "PUBLISH", !.channel = channel,
                          !.subs = CHANNEL_SUBSCRIBERS[channel],
                          !.held = <<"BLOCKING_CLIENTS_LOCK">>])
    /\ ncmds' = [ncmds EXCEPT ![c] = @ + 1]
    /\ UNCHANGED <<storeVars, regVars, pubsubVars, conds, sock, peer, nextElem, now, budget>>

\* the loop takes the next subscriber and enters subscriber.sendall(response);
\* after the last one the mutex is released and the count is the result
PUBLISH_send(c) ==
    /\ pc[c] = "publish_send"
    /\ IF loc[c].subs = {}
       THEN Goto(c, "reply", [loc[c] EXCEPT !.held = <<>>,
                                            !.result = IntegerFrame(loc[c].count)])
       ELSE \E x \in loc[c].subs :
                Goto(c, "publish_sending", [loc[c] EXCEPT !.writing = x, !.subs = @ \ {x}])
    /\ UNCHANGED <<storeVars, regVars, pubsubVars, conds, sock, peer, ncmds, nextElem, now, budget>>

\* subscriber.sendall(response) returns (recipients += 1) or raises (ignored)
PUBLISH_sent(c) ==
    /\ pc[c] = "publish_sending"
    /\ LET x == loc[c].writing IN
       IF Ended(x)
       THEN /\ UNCHANGED sock
            /\ Goto(c, "publish_send", [loc[c] EXCEPT !.writing = 0, !.gdead = @ \cup {x}])
       ELSE /\ sock' = sendall(sock, x, MessageFrame(loc[c].channel))
            /\ Goto(c, "publish_send", [loc[c] EXCEPT !.writing = 0, !.count = @ + 1])
    /\ UNCHANGED <<storeVars, regVars, pubsubVars, conds, peer, ncmds, nextElem, now, budget>>

\* subscribe and num_client_subscriptions enter "with BLOCKING_CLIENTS_LOCK"
Write_SUBSCRIBE_recv(c) == RegistryLockFree /\ SUBSCRIBE_recv(c)
Write_SUBSCRIBE_count(c) == RegistryLockFree /\ SUBSCRIBE_count(c)

\* ------------------------------------------------------------------------
\* The end of a connection (command_execution.py, 761-772)
\* ------------------------------------------------------------------------
\* the peer hangs up, between two requests or while its request is parked
PeerClose(c) ==
    /\ peer[c] = "open"
    /\ ncmds[c] > 0
    /\ pc[c] \in {"idle", "blpop_wait", "xread_wait"}
    /\ peer' = [peer EXCEPT ![c] = "closed"]
    /\ UNCHANGED <<storeVars, regVars, pubsubVars, conds, pc, loc, sock, ncmds, nextElem, now, budget>>

\* recv returns b"": cleanup_blocked_client(ctx), and the loop ends
HandleEOF(c) ==
    /\ pc[c] = "idle"
    /\ peer[c] = "closed"
    /\ CHANNEL_SUBSCRIBERS' = cleanup_subscribers(CHANNEL_SUBSCRIBERS, c)
    /\ CLIENT_SUBSCRIPTIONS' = [CLIENT_SUBSCRIPTIONS EXCEPT ![c] = {}]
    /\ CLIENT_STATE' = [CLIENT_STATE EXCEPT ![c] = "none"]
    /\ Goto(c, "closed", Loc0)
    /\ UNCHANGED <<storeVars, regVars, conds, sock, peer, ncmds, nextElem, now, budget>>

\* recv returns bytes that parse_resp_array does not accept (or an empty
\* array): the loop ends without cleanup_blocked_client
BadFrame(c) ==
    /\ CanRecv(c)
    /\ ncmds[c] > 0
    /\ Goto(c, "ended", Loc0)
    /\ ncmds' = [ncmds EXCEPT ![c] = @ + 1]
    /\ UNCHANGED <<storeVars, regVars, pubsubVars, conds, sock, peer, nextElem, now, budget>>

\* recv raises OSError (the peer reset the connection): the loop ends
\* without cleanup_blocked_client
RecvError(c) ==
    /\ pc[c] = "idle"
    /\ peer[c] = "open"
    /\ ncmds[c] > 0
    /\ peer' = [peer EXCEPT ![c] = "closed"]
    /\ Goto(c, "ended", Loc0)
    /\ UNCHANGED <<storeVars, regVars, pubsubVars, conds, sock, ncmds, nextElem, now, budget>>

\* ------------------------------------------------------------------------
\* The read loop of handle_connection (command_execution.py, 762-789) on the
\* bytes of the wire, and the branches of execute_single_command that answer
\* a request by its shape alone.  Requests that reach a store operation are
\* the _recv actions above.
\* ------------------------------------------------------------------------
CmdPING == <<"P", "I", "N", "G">>
CmdECHO == <<"E", "C", "H", "O">>
CmdRPUSH == <<"R", "P", "U", "S", "H">>
CmdBLPOP == <<"B", "L", "P", "O", "P">>
CmdINCR == <<"I", "N", "C", "R">>
CmdLRANGE == <<"L", "R", "A", "N", "G", "E">>

\* str.upper(), on the letters the requests are written with
UpperOf(ch) ==
    CASE ch = "p" -> "P" [] ch = "i" -> "I" [] ch = "n" -> "N" [] ch = "g" -> "G"
      [] OTHER -> ch

Upper(str) == [i \in 1..Len(str) |-> UpperOf(str[i])]

ReqPing == <<CmdPING>>
ReqPingLower == <<<<"p", "i", "n", "g">>>>
ReqEcho == <<CmdECHO, <<"a">>>>
ReqEchoNone == <<CmdECHO>>
ReqRpushNone == <<CmdRPUSH>>
ReqBlpopOne == <<CmdBLPOP, <<"k">>>>
ReqIncrNone == <<CmdINCR>>
ReqLrangeTwo == <<CmdLRANGE, <<"k">>, <<"0">>>>
ReqLrangeBad == <<CmdLRANGE, <<"k">>, <<"a">>, <<"1">>>>
ReqUnknown == <<<<"F", "O", "O">>>>

WireRequests ==
    {ReqPing, ReqPingLower, ReqEcho, ReqEchoNone, ReqRpushNone, ReqBlpopOne, ReqIncrNone,
     ReqLrangeTwo, ReqLrangeBad, ReqUnknown}

RECURSIVE EncodeAll(_)
EncodeAll(reqs) ==
    IF reqs = <<>> THEN <<>> ELSE EncodeRequest(Head(reqs)) \o EncodeAll(Tail(reqs))

\* data = client.recv(4096) returns the bytes the client has sent: the frames
\* of the requests reqs, or (cut) the first half of the bytes of one frame;
\* then parse_resp_array(data).  Nothing is kept of data beyond its first
\* frame, and when it does not parse the loop ends.
Wire_recv(c, reads) ==
    /\ CanRecv(c)
    /\ \E reqs \in reads, cut \in BOOLEAN :
        LET bytes == EncodeAll(reqs)
            data == IF cut THEN SubSeq(bytes, 1, Len(bytes) \div 2) ELSE bytes
            parsed == parse_resp_array(data)
            l == [Loc0 EXCEPT !.data = data, !.parsed = parsed, !.greqs = reqs,
                              !.gcut = cut] IN
        /\ cut => Len(reqs) = 1
        /\ IF ~parsed.ok \/ parsed.elems = <<>> THEN Goto(c, "ended", l)
           ELSE Goto(c, "wire_exec", l)
        /\ ncmds' = [ncmds EXCEPT ![c] = @ + Len(reqs)]
    /\ UNCHANGED <<storeVars, regVars, pubsubVars, conds, sock, peer, nextElem, now, budget>>

ErrArityEcho == "wrong number of arguments for 'echo' command"
ErrArityIncr == "wrong number of arguments for 'incr' command"
ErrArityLrange == "wrong number of arguments for 'lrange' command"
ErrUnknown == "unknown command"

\* handle_command(command, arguments, ctx) for the parsed request.  RPUSH
\* without arguments and BLPOP without exactly two return True: nothing is
\* sent.  int() of an LRANGE index that is no integer raises ValueError.
Wire_exec(c) ==
    /\ pc[c] = "wire_exec"
    /\ LET command == Upper(loc[c].parsed.elems[1])
           arguments == Tail(loc[c].parsed.elems)
           l == [loc[c] EXCEPT !.args = arguments]
           reply(frame) == Goto(c, "reply", [l EXCEPT !.result = frame]) IN
       IF is_client_subscribed(CLIENT_STATE, c) /\ command # CmdPING
       THEN reply(ErrorFrame(ErrSubscribed))
       ELSE CASE command = CmdPING ->
                    reply(IF is_client_subscribed(CLIENT_STATE, c)
                          THEN SubscribeFrame("pong", "", 0) ELSE SimpleFrame("PONG"))
              [] command = CmdECHO ->
                    reply(IF arguments # <<>> THEN StringFrame(arguments[1])
                          ELSE ErrorFrame(ErrArityEcho))
              [] command = CmdRPUSH /\ arguments = <<>> -> Goto(c, "idle", Loc0)
              [] command = CmdBLPOP /\ Len(arguments) # 2 -> Goto(c, "idle", Loc0)
              [] command = CmdINCR /\ Len(arguments) # 1 -> reply(ErrorFrame(ErrArityIncr))
              [] command = CmdLRANGE /\ Len(arguments) < 3 -> reply(ErrorFrame(ErrArityLrange))
              [] command = CmdLRANGE /\ Len(arguments) >= 3
                    /\ (~StrToInt(arguments[2]).ok \/ ~StrToInt(arguments[3]).ok) ->
                    Goto(c, "crashed", l)
              [] OTHER -> reply(ErrorFrame(ErrUnknown))
    /\ UNCHANGED <<storeVars, regVars, pubsubVars, conds, sock, peer, ncmds, nextElem, now, budget>>

\* the encoders applied to the list of strings loc.args
Codec_encode(c) ==
    /\ pc[c] = "encode"
    /\ Goto(c, "decode", [loc[c] EXCEPT !.data = EncodeRequest(loc[c].args)])
    /\ UNCHANGED <<storeVars, regVars, pubsubVars, conds, sock, peer, ncmds, nextElem, now, budget>>

\* parse_resp_array applied to the bytes loc.data
Codec_decode(c) ==
    /\ pc[c] = "decode"
    /\ Goto(c, "decoded", [loc[c] EXCEPT !.parsed = parse_resp_array(loc[c].data)])
    /\ UNCHANGED <<storeVars, regVars, pubsubVars, conds, sock, peer, ncmds, nextElem, now, budget>>

\* ------------------------------------------------------------------------
\* Specifications
\* ------------------------------------------------------------------------
Next ==
    \/ \E c \in Clients : RPUSH_recv(c, 1..MaxPush)
    \/ \E c \in Clients : RPUSH_append(c)
    \/ \E c \in Clients : RPUSH_set(c)
    \/ \E c \in Clients : RPUSH_size(c)
    \/ \E c \in Clients : RPUSH_wake(c)
    \/ \E c \in Clients : RPUSH_remove(c)
    \/ \E c \in Clients : RPUSH_send(c)
    \/ \E c \in Clients : RPUSH_notify(c)
    \/ \E c \in Clients : LPUSH_recv(c, 1..MaxPush)
    \/ \E c \in Clients : LPUSH_prepend(c)
    \/ \E c \in Clients : LPUSH_set(c)
    \/ \E c \in Clients : LPUSH_size(c)
    \/ \E c \in Clients : LPOP_recv(c)
    \/ \E c \in Clients : LPOP_remove(c)
    \/ \E c \in Clients : BLPOP_recv(c)
    \/ \E c \in Clients : BLPOP_fast(c)
    \/ \E c \in Clients : BLPOP_register(c)
    \/ \E c \in Clients : BLPOP_enter(c)
    \/ \E c \in Clients : BLPOP_notified(c)
    \/ \E c \in Clients : BLPOP_timeout(c)
    \/ \E c \in Clients : BLPOP_cleanup(c)
    \/ \E c \in Clients : Reply(c)

Spec == Init /\ [][Next]_vars


\* Pushes and blocking pops only.  The run starts when connections 1 and 2 have
\* each sent BLPOP k 0 to the empty server and are parked, in that order
\* (TwoParked, a state Spec reaches).
ParkedLoc(w) == [Loc0 EXCEPT !.cmd = "BLPOP", !.key = "k", !.cond = w]

TwoParked ==
    /\ DATA_STORE = [k \in Keys |-> Absent]
    /\ STREAMS = [k \in Keys |-> NoStream]
    /\ BLOCKING_CLIENTS = [k \in Keys |-> <<1, 2>>]
    /\ BLOCKING_STREAMS = [k \in Keys |-> <<>>]
    /\ CHANNEL_SUBSCRIBERS = [ch \in Channels |-> {}]
    /\ CLIENT_SUBSCRIPTIONS = [c \in Clients |-> {}]
    /\ CLIENT_STATE = [c \in Clients |-> "none"]
    /\ conds = <<NewCond(1, "k"), NewCond(2, "k")>>
    /\ pc = [c \in Clients |-> IF c <= 2 THEN "blpop_wait" ELSE "idle"]
    /\ loc = [c \in Clients |-> IF c <= 2 THEN ParkedLoc(c) ELSE Loc0]
    /\ sock = [c \in Clients |-> <<>>]
    /\ peer = [c \in Clients |-> "open"]
    /\ ncmds = [c \in Clients |-> IF c <= 2 THEN 1 ELSE 0]
    /\ nextElem = 1
    /\ now = 1

InitFifo == TwoParked /\ budget = FifoCmds

\* Spec reaches TwoParked: this is violated
TwoParkedUnreachable == ~TwoParked

NextFifo ==
    \/ \E c \in Clients : RPUSH_recv(c, 1..MaxPush)
    \/ \E c \in Clients : RPUSH_append(c)
    \/ \E c \in Clients : RPUSH_set(c)
    \/ \E c \in Clients : RPUSH_size(c)
    \/ \E c \in Clients : RPUSH_wake(c)
    \/ \E c \in Clients : RPUSH_remove(c)
    \/ \E c \in Clients : RPUSH_send(c)
    \/ \E c \in Clients : RPUSH_notify(c)
    \/ \E c \in Clients : BLPOP_recv(c)
    \/ \E c \in Clients : BLPOP_fast(c)
    \/ \E c \in Clients : BLPOP_register(c)
    \/ \E c \in Clients : BLPOP_enter(c)
    \/ \E c \in Clients : BLPOP_notified(c)
    \/ \E c \in Clients : BLPOP_timeout(c)
    \/ \E c \in Clients : BLPOP_cleanup(c)
    \/ \E c \in Clients : Reply(c)

SpecFifo == InitFifo /\ [][NextFifo]_vars

\* blocking pops and reads with their producers, and peers that hang up
NextBlock ==
    \/ \E c \in Clients : RPUSH_recv(c, 1..1)
    \/ \E c \in Clients : RPUSH_append(c)
    \/ \E c \in Clients : RPUSH_set(c)
    \/ \E c \in Clients : RPUSH_size(c)
    \/ \E c \in Clients : RPUSH_wake(c)
    \/ \E c \in Clients : RPUSH_remove(c)
    \/ \E c \in Clients : RPUSH_send(c)
    \/ \E c \in Clients : RPUSH_notify(c)
    \/ \E c \in Clients : BLPOP_recv(c)
    \/ \E c \in Clients : BLPOP_fast(c)
    \/ \E c \in Clients : BLPOP_register(c)
    \/ \E c \in Clients : BLPOP_enter(c)
    \/ \E c \in Clients : BLPOP_notified(c)
    \/ \E c \in Clients : BLPOP_timeout(c)
    \/ \E c \in Clients : BLPOP_cleanup(c)
    \/ \E c \in Clients : XADD_recv(c, {AutoId})
    \/ \E c \in Clients : XREAD_recv(c, 0..1)
    \/ \E c \in Clients : XREAD_read(c)
    \/ \E c \in Clients : XREAD_register(c)
    \/ \E c \in Clients : XREAD_enter(c)
    \/ \E c \in Clients : XREAD_timeout(c)
    \/ \E c \in Clients : XREAD_cleanup(c)
    \/ \E c \in Clients : PeerClose(c)
    \/ \E c \in Clients : HandleEOF(c)
    \/ \E c \in Clients : Reply(c)

SpecBlock == Init /\ [][NextBlock]_vars

\* a run of INCRs on a key that holds the integer IncrStart (after SET k 9)
InitIncr ==
    /\ DATA_STORE = [k \in Keys |-> Entry("string", IntToStr(IncrStart), NoExpiry)]
    /\ STREAMS = [k \in Keys |-> NoStream]
    /\ BLOCKING_CLIENTS = [k \in Keys |-> <<>>]
    /\ BLOCKING_STREAMS = [k \in Keys |-> <<>>]
    /\ CHANNEL_SUBSCRIBERS = [ch \in Channels |-> {}]
    /\ CLIENT_SUBSCRIPTIONS = [c \in Clients |-> {}]
    /\ CLIENT_STATE = [c \in Clients |-> "none"]
    /\ conds = <<>>
    /\ pc = [c \in Clients |-> "idle"]
    /\ loc = [c \in Clients |-> Loc0]
    /\ sock = [c \in Clients |-> <<>>]
    /\ peer = [c \in Clients |-> "open"]
    /\ ncmds = [c \in Clients |-> 0]
    /\ nextElem = 1
    /\ now = 1
    /\ budget = IncrCmds

NextIncr ==
    \/ \E c \in Clients : INCR_recv(c)
    \/ \E c \in Clients : Reply(c)

SpecIncr == InitIncr /\ [][NextIncr]_vars

\* strings with an expiry and the commands that read them, as the clock runs
NextExpiry ==
    \/ \E c \in Clients : SET_recv(c)
    \/ \E c \in Clients : GET_recv(c)
    \/ \E c \in Clients : TYPE_recv(c)
    \/ \E c \in Clients : KEYS_recv(c)
    \/ \E c \in Clients : LLEN_recv(c)
    \/ \E c \in Clients : LRANGE_recv(c, {0}, {-1})
    \/ \E c \in Clients : LPOP_recv(c)
    \/ \E c \in Clients : LPOP_remove(c)
    \/ \E c \in Clients : INCR_recv(c)
    \/ \E c \in Clients : RPUSH_recv(c, 1..1)
    \/ \E c \in Clients : RPUSH_append(c)
    \/ \E c \in Clients : RPUSH_set(c)
    \/ \E c \in Clients : RPUSH_size(c)
    \/ \E c \in Clients : RPUSH_wake(c)
    \/ \E c \in Clients : Reply(c)
    \/ Tick

SpecExpiry == Init /\ [][NextExpiry]_vars

\* XADD with every form of id argument, XREAD, and the clock
StreamIds ==
    {AutoId, PartialId(0), PartialId(1), ExplicitId(0, 0), PaddedZeroId,
     ExplicitId(0, 1), ExplicitId(1, 0), ExplicitId(1, 1), GarbageId}

InitStream == InitWith(StreamCmds)

NextStream ==
    \/ \E c \in Clients : XADD_recv(c, StreamIds)
    \/ \E c \in Clients : XREAD_recv(c, {NoBlock, 0, 1})
    \/ \E c \in Clients : XREAD_read(c)
    \/ \E c \in Clients : XREAD_register(c)
    \/ \E c \in Clients : XREAD_enter(c)
    \/ \E c \in Clients : XREAD_timeout(c)
    \/ \E c \in Clients : XREAD_cleanup(c)
    \/ \E c \in Clients : Reply(c)
    \/ Tick

SpecStream == InitStream /\ [][NextStream]_vars

\* subscriptions, publications, a store command, and connections that end
InitPubSub == InitWith(PubSubCmds)

NextPubSub ==
    \/ \E c \in Clients : SUBSCRIBE_recv(c)
    \/ \E c \in Clients : SUBSCRIBE_count(c)
    \/ \E c \in Clients : UNSUBSCRIBE_recv(c)
    \/ \E c \in Clients : UNSUBSCRIBE_count(c)
    \/ \E c \in Clients : PUBLISH_recv(c)
    \/ \E c \in Clients : PING_recv(c)
    \/ \E c \in Clients : SET_recv(c)
    \/ \E c \in Clients : Rejected_recv(c, {"SET", "PUBLISH"})
    \/ \E c \in Clients : PeerClose(c)
    \/ \E c \in Clients : HandleEOF(c)
    \/ \E c \in Clients : BadFrame(c)
    \/ \E c \in Clients : RecvError(c)
    \/ \E c \in Clients : Reply(c)

SpecPubSub == InitPubSub /\ [][NextPubSub]_vars

\* LRANGE with every pair of indices around the ends of a list of every
\* length up to MaxElems (an absent key is the list of length 0: the store
\* keeps no empty list)
Indices == (0 - (MaxElems + 2))..(MaxElems + 2)

InitLrange ==
    /\ \E L \in 0..MaxElems :
        /\ DATA_STORE = [k \in Keys |->
                IF L = 0 THEN Absent ELSE Entry("list", [i \in 1..L |-> i], NoExpiry)]
        /\ nextElem = L + 1
    /\ STREAMS = [k \in Keys |-> NoStream]
    /\ BLOCKING_CLIENTS = [k \in Keys |-> <<>>]
    /\ BLOCKING_STREAMS = [k \in Keys |-> <<>>]
    /\ CHANNEL_SUBSCRIBERS = [ch \in Channels |-> {}]
    /\ CLIENT_SUBSCRIPTIONS = [c \in Clients |-> {}]
    /\ CLIENT_STATE = [c \in Clients |-> "none"]
    /\ conds = <<>>
    /\ pc = [c \in Clients |-> "idle"]
    /\ loc = [c \in Clients |-> Loc0]
    /\ sock = [c \in Clients |-> <<>>]
    /\ peer = [c \in Clients |-> "open"]
    /\ ncmds = [c \in Clients |-> 0]
    /\ now = 1
    /\ budget = LrangeCmds

NextLrange ==
    \/ \E c \in Clients : LRANGE_recv(c, Indices, Indices)
    \/ \E c \in Clients : Reply(c)

SpecLrange == InitLrange /\ [][NextLrange]_vars

\* SET on a store that holds MaxKeys of the MaxKeys + 1 keys of ManyKeys
\* (after MaxKeys SETs of different keys)
ManyKeys == 1..(MaxKeys + 1)

InitEvict ==
    /\ \E new \in ManyKeys :
        DATA_STORE = [k \in ManyKeys |->
            IF k = new THEN Absent ELSE Entry("string", <<"7">>, NoExpiry)]
    /\ STREAMS = [k \in ManyKeys |-> NoStream]
    /\ BLOCKING_CLIENTS = [k \in ManyKeys |-> <<>>]
    /\ BLOCKING_STREAMS = [k \in ManyKeys |-> <<>>]
    /\ CHANNEL_SUBSCRIBERS = [ch \in Channels |-> {}]
    /\ CLIENT_SUBSCRIPTIONS = [c \in Clients |-> {}]
    /\ CLIENT_STATE = [c \in Clients |-> "none"]
    /\ conds = <<>>
    /\ pc = [c \in Clients |-> "idle"]
    /\ loc = [c \in Clients |-> Loc0]
    /\ sock = [c \in Clients |-> <<>>]
    /\ peer = [c \in Clients |-> "open"]
    /\ ncmds = [c \in Clients |-> 0]
    /\ nextElem = 1
    /\ now = 1
    /\ budget = EvictCmds

NextEvict ==
    \/ \E c \in Clients : SET_keys(c, ManyKeys)
    \/ \E c \in Clients : Reply(c)

SpecEvict == InitEvict /\ [][NextEvict]_vars

\* streams whose ids may be the text "$", and reads of them: a step that
\* enters "with DATA_LOCK" waits while another thread holds the mutex.  (In
\* the other specifications no id "$" is stored and DATA_LOCK is free between
\* any two steps.)
LockIds == {DollarId, ExplicitId(1, 1)}

InitLock == InitWith(LockCmds)

\* xadd, get_stream_max_id, xread and get_data_entry enter "with DATA_LOCK"
Lock_XADD_recv(c) == DataLockFree /\ XADD_recv(c, LockIds)
Lock_XREAD_recv(c) == DataLockFree /\ XREAD_recv(c, {NoBlock})
Lock_XREAD_read(c) == DataLockFree /\ XREAD_read(c)
Lock_GET_recv(c) == DataLockFree /\ GET_recv(c)

NextLock ==
    \/ \E c \in Clients : Lock_XADD_recv(c)
    \/ \E c \in Clients : Lock_XREAD_recv(c)
    \/ \E c \in Clients : Lock_XREAD_read(c)
    \/ \E c \in Clients : Lock_GET_recv(c)
    \/ \E c \in Clients : PING_recv(c)
    \/ \E c \in Clients : Reply(c)

SpecLock == InitLock /\ [][NextLock]_vars

\* ------------------------------------------------------------------------
\* The RDB loader (datastore.py, 251-298; helpers.py, 30-81).  A file is a
\* sequence of bytes 0..255 and pos the number of bytes read so far; raised
\* is the IndexError of read(1)[0] at the end of the file.
\* ------------------------------------------------------------------------
\* the largest length kept apart: every file is shorter
LenCap == 1048576

\* rdb_file.read(n) at pos
ReadBytes(f, pos, n) == SubSeq(f, pos + 1, IF pos + n <= Len(f) THEN pos + n ELSE Len(f))
AfterRead(f, pos, n) == IF pos + n <= Len(f) THEN pos + n ELSE Len(f)

\* int.from_bytes(b, "big"), lengths from LenCap on counted as LenCap
RECURSIVE FromBig(_, _)
FromBig(b, acc) ==
    IF b = <<>> THEN acc
    ELSE LET v == acc * 256 + Head(b) IN FromBig(Tail(b), IF v > LenCap THEN LenCap ELSE v)

\* a little-endian number as its bytes without the zero bytes at the top
RECURSIVE StripTop(_)
StripTop(b) ==
    IF b # <<>> /\ b[Len(b)] = 0 THEN StripTop(SubSeq(b, 1, Len(b) - 1)) ELSE b

\* read_rdb_length: [raised, val, pos]
read_rdb_length(f, pos) ==
    IF pos >= Len(f) THEN [raised |-> TRUE, val |-> 0, pos |-> pos]
    ELSE LET first_byte == f[pos + 1]
             prefix == first_byte \div 64 IN
         IF prefix = 0 THEN [raised |-> FALSE, val |-> first_byte % 64, pos |-> pos + 1]
         ELSE IF prefix = 1
         THEN IF pos + 1 >= Len(f) THEN [raised |-> TRUE, val |-> 0, pos |-> pos + 1]
              ELSE [raised |-> FALSE, val |-> (first_byte % 64) * 256 + f[pos + 2],
                    pos |-> pos + 2]
         ELSE IF prefix = 2
         THEN [raised |-> FALSE, val |-> FromBig(ReadBytes(f, pos + 1, 4), 0),
               pos |-> AfterRead(f, pos + 1, 4)]
         ELSE [raised |-> FALSE, val |-> first_byte, pos |-> pos + 1]

\* strings of the file: str (kind "str"), undecodable bytes (kind "bytes"),
\* a number written little-endian that becomes its decimal text (kind "int"),
\* and None
NoneObj == [kind |-> "none", data |-> <<>>]

\* data.decode("utf-8") succeeds
RECURSIVE Utf8Valid(_)
Utf8Valid(d) ==
    IF d = <<>> THEN TRUE
    ELSE LET b == d[1]
             cont(i) == Len(d) >= i /\ d[i] >= 128 /\ d[i] <= 191
             rest(n) == Utf8Valid(SubSeq(d, n + 1, Len(d))) IN
         IF b < 128 THEN rest(1)
         ELSE IF b >= 194 /\ b <= 223 THEN cont(2) /\ rest(2)
         ELSE IF b = 224 THEN cont(2) /\ d[2] >= 160 /\ cont(3) /\ rest(3)
         ELSE IF b = 237 THEN cont(2) /\ d[2] <= 159 /\ cont(3) /\ rest(3)
         ELSE IF b >= 225 /\ b <= 239 THEN cont(2) /\ cont(3) /\ rest(3)
         ELSE IF b = 240 THEN cont(2) /\ d[2] >= 144 /\ cont(3) /\ cont(4) /\ rest(4)
         ELSE IF b = 244 THEN cont(2) /\ d[2] <= 143 /\ cont(3) /\ cont(4) /\ rest(4)
         ELSE IF b >= 241 /\ b <= 243 THEN cont(2) /\ cont(3) /\ cont(4) /\ rest(4)
         ELSE FALSE

\* read_rdb_encoded_string: [obj, pos]
read_rdb_encoded_string(f, pos, first_byte) ==
    LET encoding_type == first_byte % 64
        n == IF encoding_type = 0 THEN 1 ELSE IF encoding_type = 1 THEN 2 ELSE 4 IN
    IF encoding_type \in {0, 1, 2}
    THEN [obj |-> [kind |-> "int", data |-> StripTop(ReadBytes(f, pos, n))],
          pos |-> AfterRead(f, pos, n)]
    ELSE [obj |-> NoneObj, pos |-> pos]

\* read_rdb_string: [raised, obj, pos]
read_rdb_string(f, pos) ==
    LET l == read_rdb_length(f, pos) IN
    IF l.raised THEN [raised |-> TRUE, obj |-> NoneObj, pos |-> l.pos]
    ELSE IF l.val \div 64 = 3
    THEN LET e == read_rdb_encoded_string(f, l.pos, l.val) IN
         [raised |-> FALSE, obj |-> e.obj, pos |-> e.pos]
    ELSE LET data == ReadBytes(f, l.pos, l.val) IN
         [raised |-> FALSE,
          obj |-> [kind |-> IF Utf8Valid(data) THEN "str" ELSE "bytes", data |-> data],
          pos |-> AfterRead(f, l.pos, l.val)]

\* read_rdb_value: a string for the type byte 0, otherwise None and nothing read
read_rdb_value(f, pos, type_byte) ==
    IF type_byte = <<0>> THEN read_rdb_string(f, pos)
    ELSE [raised |-> FALSE, obj |-> NoneObj, pos |-> pos]

\* read_rdb_expiry: milliseconds as [has, mult, le]: le little-endian, times mult
NoRdbExpiry == [has |-> FALSE, mult |-> 1, le |-> <<>>]

read_rdb_expiry(f, pos, type_byte) ==
    IF type_byte = <<252>>
    THEN [expiry |-> [has |-> TRUE, mult |-> 1, le |-> StripTop(ReadBytes(f, pos, 8))],
          pos |-> AfterRead(f, pos, 8)]
    ELSE [expiry |-> [has |-> TRUE, mult |-> 1000, le |-> StripTop(ReadBytes(f, pos, 4))],
          pos |-> AfterRead(f, pos, 4)]

\* new_store[key_str] = {"type": "string", "value": val_obj, "expiry": expiry_time}
StorePut(store, key, value, expiry) ==
    {r \in store : r.key # key} \cup {[key |-> key, value |-> value, expiry |-> expiry]}

\* the first position at which 0xFF was read as an opcode (0: not yet)
FirstEnd(fin, pos) == IF fin = 0 THEN pos ELSE fin

\* load_rdb_to_datastore: the loop over opcodes (RdbOuter) and, after a DB
\* selector, the loop over entries (RdbInner): [store, fin].  An exception
\* ends the load and keeps the entries read so far.
RECURSIVE RdbOuter(_, _, _, _), RdbInner(_, _, _, _)
RdbInner(f, pos, store, fin) ==
    LET type_byte == ReadBytes(f, pos, 1)
        p1 == AfterRead(f, pos, 1) IN
    IF type_byte = <<>> THEN RdbOuter(f, p1, store, fin)
    ELSE IF type_byte = <<255>> THEN RdbOuter(f, p1, store, FirstEnd(fin, p1))
    ELSE LET hasexp == type_byte \in {<<252>>, <<253>>}
             x == IF hasexp THEN read_rdb_expiry(f, p1, type_byte)
                  ELSE [expiry |-> NoRdbExpiry, pos |-> p1]
             tb == IF hasexp THEN ReadBytes(f, x.pos, 1) ELSE type_byte
             p2 == IF hasexp THEN AfterRead(f, x.pos, 1) ELSE x.pos
             k == read_rdb_string(f, p2)
             v == read_rdb_value(f, k.pos, tb) IN
         IF k.raised \/ v.raised THEN [store |-> store, fin |-> fin]
         ELSE RdbInner(f, v.pos,
                       IF tb = <<0>> THEN StorePut(store, k.obj, v.obj, x.expiry) ELSE store,
                       fin)

RdbOuter(f, pos, store, fin) ==
    LET op_code == ReadBytes(f, pos, 1)
        p1 == AfterRead(f, pos, 1) IN
    IF op_code = <<>> THEN [store |-> store, fin |-> fin]
    ELSE IF op_code = <<250>>
    THEN LET a == read_rdb_string(f, p1)
             b == read_rdb_string(f, a.pos) IN
         IF a.raised \/ b.raised THEN [store |-> store, fin |-> fin]
         ELSE RdbOuter(f, b.pos, store, fin)
    ELSE IF op_code = <<254>>
    THEN LET db == read_rdb_length(f, p1) IN
         IF db.raised THEN [store |-> store, fin |-> fin]
         ELSE LET nxt == ReadBytes(f, db.pos, 1)
                  p2 == AfterRead(f, db.pos, 1) IN
              IF nxt = <<251>>
              THEN LET h1 == read_rdb_length(f, p2)
                       h2 == read_rdb_length(f, h1.pos) IN
                   IF h1.raised \/ h2.raised THEN [store |-> store, fin |-> fin]
                   ELSE RdbInner(f, h2.pos, store, fin)
              ELSE IF p2 = 0 THEN [store |-> store, fin |-> fin]
              ELSE RdbInner(f, p2 - 1, store, fin)
    ELSE IF op_code = <<255>> THEN [store |-> store, fin |-> FirstEnd(fin, p1)]
    ELSE RdbOuter(f, p1, store, fin)

\* b"REDIS" and four bytes of version
Magic == <<82, 69, 68, 73, 83>>

load_rdb_to_datastore(f) ==
    IF ReadBytes(f, 0, 5) # Magic THEN [store |-> {}, fin |-> 0]
    ELSE RdbOuter(f, AfterRead(f, 5, 4), {}, 0)

\* the load at startup: loc.new_store is the returned store
RDB_load(c) ==
    /\ pc[c] = "rdb_load"
    /\ LET r == load_rdb_to_datastore(loc[c].file) IN
       Goto(c, "rdb_loaded", [loc[c] EXCEPT !.new_store = r.store, !.gend = r.fin])
    /\ UNCHANGED <<storeVars, regVars, pubsubVars, conds, sock, peer, ncmds, nextElem, now, budget>>

\* files: the header, a first section, and up to MaxTail bytes after it
RdbHeader == Magic \o <<48, 48, 49, 49>>
\* 0xFF alone; an auxiliary field and 0xFF; a database with k = v and 0xFF;
\* a database with resize hints and k = v with an expiry, and 0xFF
RdbSections ==
    { <<255>>,
      <<250, 1, 97, 1, 98, 255>>,
      <<254, 0, 0, 1, 107, 1, 118, 255>>,
      <<254, 0, 251, 1, 1, 252, 1, 0, 0, 0, 0, 0, 0, 0, 0, 1, 107, 1, 118, 255>> }
TailBytes == {0, 1, 107, 254, 255}
RdbTails == UNION {[1..n -> TailBytes] : n \in 0..MaxTail}
RdbFiles == {RdbHeader \o sec \o tail : sec \in RdbSections, tail \in RdbTails}

InitRdb ==
    /\ \E f \in RdbFiles :
        /\ pc = [c \in Clients |-> IF c = 1 THEN "rdb_load" ELSE "idle"]
        /\ loc = [c \in Clients |-> IF c = 1 THEN [Loc0 EXCEPT !.file = f] ELSE Loc0]
    /\ DATA_STORE = [k \in Keys |-> Absent]
    /\ STREAMS = [k \in Keys |-> NoStream]
    /\ BLOCKING_CLIENTS = [k \in Keys |-> <<>>]
    /\ BLOCKING_STREAMS = [k \in Keys |-> <<>>]
    /\ CHANNEL_SUBSCRIBERS = [ch \in Channels |-> {}]
    /\ CLIENT_SUBSCRIPTIONS = [c \in Clients |-> {}]
    /\ CLIENT_STATE = [c \in Clients |-> "none"]
    /\ conds = <<>>
    /\ sock = [c \in Clients |-> <<>>]
    /\ peer = [c \in Clients |-> "open"]
    /\ ncmds = [c \in Clients |-> 0]
    /\ nextElem = 1
    /\ now = 1
    /\ budget = 0

NextRdb == \E c \in Clients : RDB_load(c)

SpecRdb == InitRdb /\ [][NextRdb]_vars

\* list commands with any number of elements: RPUSH k and LPUSH k (the key
\* alone) as well as pushes of one or more elements
PushCounts == 0..MaxPush

InitPush == InitWith(PushCmds)

NextPush ==
    \/ \E c \in Clients : RPUSH_recv(c, PushCounts)
    \/ \E c \in Clients : RPUSH_append(c)
    \/ \E c \in Clients : RPUSH_set(c)
    \/ \E c \in Clients : RPUSH_size(c)
    \/ \E c \in Clients : RPUSH_wake(c)
    \/ \E c \in Clients : RPUSH_remove(c)
    \/ \E c \in Clients : RPUSH_send(c)
    \/ \E c \in Clients : RPUSH_notify(c)
    \/ \E c \in Clients : LPUSH_recv(c, PushCounts)
    \/ \E c \in Clients : LPUSH_prepend(c)
    \/ \E c \in Clients : LPUSH_set(c)
    \/ \E c \in Clients : LPUSH_size(c)
    \/ \E c \in Clients : LPOP_recv(c)
    \/ \E c \in Clients : LPOP_remove(c)
    \/ \E c \in Clients : BLPOP_recv(c)
    \/ \E c \in Clients : BLPOP_fast(c)
    \/ \E c \in Clients : BLPOP_register(c)
    \/ \E c \in Clients : BLPOP_enter(c)
    \/ \E c \in Clients : BLPOP_notified(c)
    \/ \E c \in Clients : BLPOP_timeout(c)
    \/ \E c \in Clients : BLPOP_cleanup(c)
    \/ \E c \in Clients : Reply(c)

SpecPush == InitPush /\ [][NextPush]_vars

\* subscribers and publishers, every socket write in two steps
InitWrite == InitWith(WriteCmds)

NextWrite ==
    \/ \E c \in Clients : Write_SUBSCRIBE_recv(c)
    \/ \E c \in Clients : Write_SUBSCRIBE_count(c)
    \/ \E c \in Clients : PUBLISH_begin(c)
    \/ \E c \in Clients : PUBLISH_send(c)
    \/ \E c \in Clients : PUBLISH_sent(c)
    \/ \E c \in Clients : Reply_begin(c)
    \/ \E c \in Clients : Reply_end(c)

SpecWrite == InitWrite /\ [][NextWrite]_vars

\* reads that hold one request, two requests, or half of one
WireReads ==
    {<<r>> : r \in WireRequests} \cup {<<ReqEcho, ReqPing>>, <<ReqPing, ReqEcho>>}

InitWire == InitWith(WireCmds)

NextWire ==
    \/ \E c \in Clients : Wire_recv(c, WireReads)
    \/ \E c \in Clients : Wire_exec(c)
    \/ \E c \in Clients : Reply(c)
    \/ \E c \in Clients : PeerClose(c)
    \/ \E c \in Clients : HandleEOF(c)

SpecWire == InitWire /\ [][NextWire]_vars

\* the codec applied to lists of one or two strings: every string of up to
\* MaxStrLen characters, and two strings of ten bytes (a two-digit length)
ShortStrings == UNION {[1..n -> Chars] : n \in 0..MaxStrLen}
LongStrings == {[i \in 1..10 |-> "a"], [i \in 1..5 |-> "U+E9"]}
CodecStrings == ShortStrings \cup LongStrings
ArgCounts == {1, 2}
CodecLists == UNION {[1..n -> CodecStrings] : n \in ArgCounts}

InitCodec ==
    /\ DATA_STORE = [k \in Keys |-> Absent]
    /\ STREAMS = [k \in Keys |-> NoStream]
    /\ BLOCKING_CLIENTS = [k \in Keys |-> <<>>]
    /\ BLOCKING_STREAMS = [k \in Keys |-> <<>>]
    /\ CHANNEL_SUBSCRIBERS = [ch \in Channels |-> {}]
    /\ CLIENT_SUBSCRIPTIONS = [c \in Clients |-> {}]
    /\ CLIENT_STATE = [c \in Clients |-> "none"]
    /\ conds = <<>>
    /\ pc = [c \in Clients |-> IF c = 1 THEN "encode" ELSE "idle"]
    /\ \E args \in CodecLists :
        loc = [c \in Clients |-> IF c = 1 THEN [Loc0 EXCEPT !.args = args] ELSE Loc0]
    /\ sock = [c \in Clients |-> <<>>]
    /\ peer = [c \in Clients |-> "open"]
    /\ ncmds = [c \in Clients |-> 0]
    /\ nextElem = 1
    /\ now = 1
    /\ budget = 0

NextCodec ==
    \/ \E c \in Clients : Codec_encode(c)
    \/ \E c \in Clients : Codec_decode(c)

SpecCodec == InitCodec /\ [][NextCodec]_vars

\* a key that is a stream, a list and deleted, in any order
InitDel == InitWith(DelCmds)

NextDel ==
    \/ \E c \in Clients : XADD_recv(c, {ExplicitId(1, 1)})
    \/ \E c \in Clients : LPUSH_recv(c, {1})
    \/ \E c \in Clients : LPUSH_prepend(c)
    \/ \E c \in Clients : LPUSH_set(c)
    \/ \E c \in Clients : LPUSH_size(c)
    \/ \E c \in Clients : LPOP_recv(c)
    \/ \E c \in Clients : LPOP_remove(c)
    \/ \E c \in Clients : DEL_recv(c, 1..2)
    \/ \E c \in Clients : DEL_next(c)
    \/ \E c \in Clients : XRANGE_recv(c, {MinId, ExplicitId(1, 1)}, {MaxId, ExplicitId(1, 1)})
    \/ \E c \in Clients : Reply(c)

SpecDel == InitDel /\ [][NextDel]_vars

\* INCR and INCRBY on a key that holds 2^63 - 2 (after SET k 9223372036854775806)
NearMax ==
    <<"9", "2", "2", "3", "3", "7", "2", "0", "3", "6", "8", "5", "4", "7", "7", "5",
      "8", "0", "6">>

Amounts == {<<"1">>, <<"2">>, <<"-", "1">>, <<"x">>}

InitOverflow ==
    /\ DATA_STORE = [k \in Keys |-> Entry("string", NearMax, NoExpiry)]
    /\ STREAMS = [k \in Keys |-> NoStream]
    /\ BLOCKING_CLIENTS = [k \in Keys |-> <<>>]
    /\ BLOCKING_STREAMS = [k \in Keys |-> <<>>]
    /\ CHANNEL_SUBSCRIBERS = [ch \in Channels |-> {}]
    /\ CLIENT_SUBSCRIPTIONS = [c \in Clients |-> {}]
    /\ CLIENT_STATE = [c \in Clients |-> "none"]
    /\ conds = <<>>
    /\ pc = [c \in Clients |-> "idle"]
    /\ loc = [c \in Clients |-> Loc0]
    /\ sock = [c \in Clients |-> <<>>]
    /\ peer = [c \in Clients |-> "open"]
    /\ ncmds = [c \in Clients |-> 0]
    /\ nextElem = 1
    /\ now = 1
    /\ budget = OverflowCmds

NextOverflow ==
    \/ \E c \in Clients : INCR_recv(c)
    \/ \E c \in Clients : INCRBY_recv(c, Amounts)
    \/ \E c \in Clients : Reply(c)

SpecOverflow == InitOverflow /\ [][NextOverflow]_vars

\* connections that enter and leave subscribe mode between store commands
InitMode == InitWith(ModeCmds)

NextMode ==
    \/ \E c \in Clients : SUBSCRIBE_recv(c)
    \/ \E c \in Clients : SUBSCRIBE_count(c)
    \/ \E c \in Clients : UNSUBSCRIBE_recv(c)
    \/ \E c \in Clients : UNSUBSCRIBE_count(c)
    \/ \E c \in Clients : SET_recv(c)
    \/ \E c \in Clients : GET_recv(c)
    \/ \E c \in Clients : Rejected_recv(c, {"SET", "GET"})
    \/ \E c \in Clients : Reply(c)

SpecMode == InitMode /\ [][NextMode]_vars

\* commands that need one kind of value, sent to keys of every kind
InitType == InitWith(TypeCmds)

NextType ==
    \/ \E c \in Clients : SET_recv(c)
    \/ \E c \in Clients : GET_recv(c)
    \/ \E c \in Clients : INCR_recv(c)
    \/ \E c \in Clients : RPUSH_recv(c, 1..1)
    \/ \E c \in Clients : RPUSH_append(c)
    \/ \E c \in Clients : RPUSH_set(c)
    \/ \E c \in Clients : RPUSH_size(c)
    \/ \E c \in Clients : RPUSH_wake(c)
    \/ \E c \in Clients : RPUSH_remove(c)
    \/ \E c \in Clients : RPUSH_send(c)
    \/ \E c \in Clients : RPUSH_notify(c)
    \/ \E c \in Clients : LPUSH_recv(c, 1..1)
    \/ \E c \in Clients : LPUSH_prepend(c)
    \/ \E c \in Clients : LPUSH_set(c)
    \/ \E c \in Clients : LPUSH_size(c)
    \/ \E c \in Clients : LPOP_recv(c)
    \/ \E c \in Clients : LPOP_remove(c)
    \/ \E c \in Clients : LLEN_recv(c)
    \/ \E c \in Clients : LRANGE_recv(c, {0}, {-1})
    \/ \E c \in Clients : BLPOP_recv(c)
    \/ \E c \in Clients : BLPOP_fast(c)
    \/ \E c \in Clients : BLPOP_register(c)
    \/ \E c \in Clients : BLPOP_enter(c)
    \/ \E c \in Clients : BLPOP_notified(c)
    \/ \E c \in Clients : BLPOP_timeout(c)
    \/ \E c \in Clients : BLPOP_cleanup(c)
    \/ \E c \in Clients : XADD_recv(c, {ExplicitId(1, 1)})
    \/ \E c \in Clients : Reply(c)

SpecType == InitType /\ [][NextType]_vars

\* ------------------------------------------------------------------------
\* Properties
\* ------------------------------------------------------------------------
\* the thread that created Condition w has left that BLPOP
Returned(w) == loc[conds[w].client_socket].cond # w

\* C1: every element pushed onto a list is delivered to at most one consumer
\* (a parked BLPOP waiter, a BLPOP fast path or an LPOP): no element is
\* carried by two reply frames.
C1_AtMostOneConsumer ==
    \A e \in 1..(nextElem - 1) : Cardinality(Deliveries(e)) <= 1

\* a producer has handed an element to a parked waiter and an LPOP has
\* returned another one
C1_Witness ==
    /\ \E x \in FramePos : FrameAt(x).kind = "key_elem" /\ FrameAt(x).cond # NoCond
    /\ \E x \in FramePos : FrameAt(x).kind = "bulk"

\* C2: a BLPOP that blocked gets exactly one reply frame, [key, element] from
\* a producer or the null array on timeout, never both.
C2_ExactlyOneReply ==
    \A w \in DOMAIN conds :
        /\ Cardinality(FramesFor(w)) <= 1
        /\ Returned(w) => Cardinality(FramesFor(w)) = 1

\* C3: an RPUSH that wakes a waiter delivers the element that was at the head
\* of the list when its insertion was complete, and replies with the length the
\* list had then.
C3_HandoffHeadAndSize ==
    \A c \in Clients :
        (loc[c].cmd = "RPUSH" /\ loc[c].popped # <<>>) =>
            /\ loc[c].popped[1] = loc[c].ghead
            /\ loc[c].size = loc[c].glen

\* C4: an LPUSH on a key with a parked BLPOP waiter wakes it as RPUSH does: by
\* the time the LPUSH replies, the waiter that headed the queue when the
\* elements went in has left the queue.
C4_LpushWakes ==
    \A c \in Clients :
        (pc[c] = "reply" /\ loc[c].cmd = "LPUSH" /\ loc[c].glen > 0
            /\ loc[c].gwait # NoCond) =>
            \A j \in 1..Len(BLOCKING_CLIENTS[loc[c].key]) :
                BLOCKING_CLIENTS[loc[c].key][j] # loc[c].gwait

\* Condition w has been handed an element
Served(w) == \E x \in FramesFor(w) : FrameAt(x).kind = "key_elem"

\* C5: waiters of one key are served in registration order: when B, registered
\* after A on the same key, has been handed an element and A has not timed
\* out, A has been handed one too.
C5_ServedInOrder ==
    \A a, b \in DOMAIN conds :
        (a < b /\ conds[a].key = conds[b].key /\ ~conds[a].timed_out
            /\ ~conds[b].timed_out /\ Served(b)) => Served(a)

\* no pop has been asked for: every request so far is a push
OnlyPushes ==
    /\ conds = <<>>
    /\ \A c \in Clients : loc[c].cmd \in {"", "RPUSH", "LPUSH"}
    /\ \A x \in FramePos : FrameAt(x).kind = "integer"

\* the positions of the elements of elems in lst
PositionsOf(elems, lst) ==
    {j \in 1..Len(lst) : \E i \in 1..Len(elems) : lst[j] = elems[i]}

\* every element of elems is in lst and they sit next to each other
Contiguous(elems, lst) ==
    LET P == PositionsOf(elems, lst) IN
    /\ Cardinality(P) = Len(elems)
    /\ \A x, y \in P : \A z \in x..y : z \in P

\* C8: pushes are atomic: while only pushes are sent, a push that has
\* completed has all its elements in the list, next to each other.
C8_PushAtomic ==
    OnlyPushes =>
        \A c \in Clients :
            (pc[c] = "reply" /\ loc[c].cmd \in {"RPUSH", "LPUSH"}) =>
                /\ DATA_STORE[loc[c].key].type = "list"
                /\ Contiguous(loc[c].elems, DATA_STORE[loc[c].key].value)


\* Condition w is in one of the two registries
InQueues(w) ==
    \E k \in Keys :
        \/ \E j \in 1..Len(BLOCKING_CLIENTS[k]) : BLOCKING_CLIENTS[k][j] = w
        \/ \E j \in 1..Len(BLOCKING_STREAMS[k]) : BLOCKING_STREAMS[k][j] = w

\* the null array for the request parked on w is built or written
NullProduced(w) ==
    \/ w \in NullWritten
    \/ \E c \in Clients : /\ pc[c] = "reply"
                          /\ loc[c].result.kind = "null_array"
                          /\ loc[c].result.cond = w

\* C6: when a BLPOP or XREAD BLOCK times out, its waiter record has left the
\* queue before the null array is produced, and no push or XADD that arrives
\* after the null array was written takes that waiter.
C6_RemovedBeforeNull ==
    /\ \A w \in DOMAIN conds : NullProduced(w) => ~InQueues(w)
    /\ \A c \in Clients : loc[c].bcc # NoCond => loc[c].bcc \notin loc[c].gnulls

\* a push has looked for waiters after a timed-out request of its key was
\* answered with the null array
C6_Witness ==
    \E c \in Clients :
        /\ loc[c].cmd \in {"RPUSH", "XADD"}
        /\ pc[c] = "reply"
        /\ \E w \in loc[c].gnulls : conds[w].key = loc[c].key /\ conds[w].timed_out

\* C7: a connection that closes while parked in BLPOP or XREAD BLOCK leaves
\* both registries, so no producer hands a list element or a stream entry to a
\* waiter whose connection had closed before the producer took the waiter.
C7_NoHandoffToClosed ==
    \A c \in Clients : pc[c] \in {"rpush_send", "xadd_send"} => ~loc[c].gclosed


\* the INCR requests executed so far (SpecIncr sends no other command)
Issued == SumTo(ncmds, NumClients)

\* the integers a connection has been answered with, the reply in hand included
RepliesOf(c) ==
    [i \in 1..Len(sock[c]) |-> sock[c][i].n]
        \o (IF pc[c] = "reply" THEN <<loc[c].result.n>> ELSE <<>>)

ReplySlots == {s \in Clients \X (1..IncrCmds + 1) : s[2] <= Len(RepliesOf(s[1]))}

\* C9: after n INCR commands sent concurrently over different connections to a
\* key that holds the integer v, the key holds v+n and the replies are exactly
\* v+1, ..., v+n, each once: no update is lost.
C9_NoLostUpdate ==
    /\ \A key \in Keys : DATA_STORE[key].value = IntToStr(IncrStart + Issued)
    /\ Cardinality(ReplySlots) = Issued
    /\ \A i \in 1..Issued :
        Cardinality({s \in ReplySlots : RepliesOf(s[1])[s[2]] = IncrStart + i}) = 1

\* all the INCRs are executed, over three connections, two of them with their
\* replies in hand at once, and the decimal string has grown by a digit
C9_Witness ==
    /\ Issued = IncrCmds
    /\ Cardinality({c \in Clients : ncmds[c] > 0}) >= 3
    /\ Cardinality({c \in Clients : pc[c] = "reply"}) >= 2
    /\ \A key \in Keys : Len(DATA_STORE[key].value) = 2

\* the reply a read gives for a key that is absent
AbsentReply(cmd) ==
    CASE cmd = "GET" -> NullBulkFrame
      [] cmd = "TYPE" -> TypeFrame("none")
      [] cmd = "KEYS" -> KeysFrame({})
      [] cmd = "LLEN" -> IntegerFrame(0)
      [] cmd = "LRANGE" -> ArrayFrame(<<>>)
      [] cmd = "LPOP" -> NullBulkFrame
      [] cmd = "INCR" -> IntegerFrame(1)

Reads == {"GET", "TYPE", "KEYS", "LLEN", "LRANGE", "LPOP", "INCR"}

\* C10: a read (GET, TYPE, KEYS, LLEN, LRANGE, LPOP, INCR) of a key whose expiry
\* has passed answers as for an absent key, and the expired entry is out of the
\* store once the read has run.
C10_ExpiredReadsAsAbsent ==
    \A c \in Clients :
        (pc[c] = "reply" /\ loc[c].cmd \in Reads /\ loc[c].gexpired) =>
            /\ loc[c].result = AbsentReply(loc[c].cmd)
            /\ loc[c].ggone

\* the kind of value a command needs
Required(cmd) ==
    CASE cmd \in {"GET", "INCR"} -> "string"
      [] cmd \in {"LPUSH", "RPUSH", "LPOP", "LLEN", "LRANGE", "BLPOP"} -> "list"
      [] cmd = "XADD" -> "stream"

Typed == {"GET", "INCR", "LPUSH", "RPUSH", "LPOP", "LLEN", "LRANGE", "BLPOP", "XADD"}

\* C11: a command that needs one kind of value and finds the key holding a live
\* value of another kind replies with the WRONGTYPE error (GET, INCR on a list
\* or stream; LPUSH, RPUSH, LPOP, LLEN, LRANGE, BLPOP on a string or stream;
\* XADD on a string or list).
C11_WrongType ==
    \A c \in Clients :
        (loc[c].cmd \in Typed /\ loc[c].gkind \notin {"none", Required(loc[c].cmd)}) =>
            /\ pc[c] = "reply"
            /\ loc[c].result = ErrorFrame(ErrWrongType)

\* C12: in every stream the ids of successive entries are strictly increasing
\* by (ms, seq), whatever mix of "*", "<ms>-*" and explicit ids built it.
C12_IdsIncrease ==
    \A key \in Keys :
        \A i \in 1..(Len(STREAMS[key].entries) - 1) :
            /\ ParseId(STREAMS[key].entries[i].id).ok
            /\ ParseId(STREAMS[key].entries[i + 1].id).ok
            /\ compare_stream_ids(STREAMS[key].entries[i + 1].id,
                                  STREAMS[key].entries[i].id) = 1

\* a stream of three entries appended over three connections, the clock
\* standing still between two of them
C12_Witness ==
    \E key \in Keys :
        /\ Len(STREAMS[key].entries) = 3
        /\ Cardinality({c \in Clients : loc[c].cmd = "XADD" /\ loc[c].entry # <<>>}) = 3
        /\ ParseId(STREAMS[key].entries[2].id).ms = ParseId(STREAMS[key].entries[3].id).ms

\* C13: no stream holds an entry whose id is (0, 0): an XADD that would assign
\* ms = 0 and seq = 0 is rejected and appends nothing.
C13_NoZeroId ==
    \A key \in Keys :
        \A i \in 1..Len(STREAMS[key].entries) :
            LET id == ParseId(STREAMS[key].entries[i].id) IN
            ~(id.ok /\ id.ms = 0 /\ id.seq = 0)

\* C14: an XADD that has appended an entry replies with the assigned id as a
\* bulk string, and its connection goes on to its next request.
C14_XaddReplies ==
    \A c \in Clients :
        (loc[c].cmd = "XADD" /\ loc[c].entry # <<>>) =>
            \/ pc[c] \in {"xadd_wake", "xadd_entry", "xadd_send", "xadd_notify"}
            \/ pc[c] = "reply" /\ loc[c].result = IdFrame(loc[c].id)

\* C15: an XADD that has appended an entry to a stream with a parked XREAD
\* BLOCK waiter has, by the time its handler is over, popped the head waiter,
\* sent it exactly the appended entry, and signalled it.
C15_XaddHandsOff ==
    \A c \in Clients :
        (loc[c].cmd = "XADD" /\ loc[c].entry # <<>> /\ loc[c].gwait # NoCond
            /\ pc[c] \in {"reply", "crashed"}) =>
            /\ ~InQueues(loc[c].gwait) \/ conds[loc[c].gwait].timed_out
            /\ \E x \in FramesFor(loc[c].gwait) :
                /\ FrameAt(x).kind = "xread"
                /\ FrameAt(x).entries = loc[c].entry

\* C16: after any interleaving of SUBSCRIBE, UNSUBSCRIBE and the cleanup of a
\* closed connection, channel ch is in the channel set of client c if and
\* only if c is in the subscriber set of ch.
C16_Transposes ==
    \A c \in Clients :
        \A ch \in Channels :
            ch \in CLIENT_SUBSCRIPTIONS[c] <=> c \in CHANNEL_SUBSCRIBERS[ch]

\* connection 1 has subscribed and unsubscribed and was cleaned up after its
\* end-of-stream, while connection 2 is still subscribed to channel b
C16_Witness ==
    /\ pc[1] = "closed"
    /\ \E j \in 1..Len(sock[1]) : sock[1][j].kind = "subscribe"
    /\ \E j \in 1..Len(sock[1]) : sock[1][j].kind = "unsubscribe"
    /\ CHANNEL_SUBSCRIBERS["b"] = {2}
    /\ CLIENT_SUBSCRIPTIONS[2] = {"b"}

\* C17: a connection is in subscribe mode exactly while its channel set is
\* non-empty; a command outside the whitelist that arrives while the set is
\* non-empty is answered with the subscribe-mode error and leaves the store
\* as it was, and one that arrives while the set is empty is not rejected.
C17_Arrives(c) ==
    /\ pc[c] = "idle"
    /\ pc'[c] # "idle"
    /\ loc'[c].cmd \notin Whitelist \cup {""}

C17_SubscribeMode ==
    /\ [](\A c \in Clients : CLIENT_STATE[c] = "subscribed" <=> CLIENT_SUBSCRIPTIONS[c] # {})
    /\ [][\A c \in Clients :
            C17_Arrives(c) =>
                IF CLIENT_SUBSCRIPTIONS[c] # {}
                THEN /\ pc'[c] = "reply"
                     /\ loc'[c].result = ErrorFrame(ErrSubscribed)
                     /\ DATA_STORE' = DATA_STORE
                     /\ STREAMS' = STREAMS
                ELSE loc'[c].result # ErrorFrame(ErrSubscribed)]_vars

\* connection 1 subscribed, had a SET rejected, unsubscribed its last channel,
\* and its next SET has been carried out
C17_Witness ==
    /\ Len(sock[1]) = 3
    /\ sock[1][1].kind = "subscribe"
    /\ sock[1][2] = ErrorFrame(ErrSubscribed)
    /\ sock[1][3].kind = "unsubscribe" /\ sock[1][3].n = 0
    /\ pc[1] = "reply" /\ loc[1].cmd = "SET" /\ loc[1].result = SimpleFrame("OK")
    /\ DATA_STORE["k"] # Absent

\* C18: once a connection has ended, whether by end-of-stream, by a frame
\* that does not parse or by a socket error, the client is in no channel's
\* subscriber set and has no subscription record, and no PUBLISH attempts to
\* write to it.
C18_EndedIsForgotten ==
    \A c \in Clients :
        Ended(c) =>
            /\ CLIENT_SUBSCRIPTIONS[c] = {}
            /\ CLIENT_STATE[c] = "none"
            /\ \A ch \in Channels : c \notin CHANNEL_SUBSCRIBERS[ch]
            /\ \A p \in Clients : c \notin loc[p].gdead

\* C19: for a list of length L and integers start and end, LRANGE replies
\* with the inclusive slice after adding L to negative indices: empty when
\* start > end or start >= L, otherwise the elements at positions
\* max(0, start) .. min(L - 1, end) in order; LRANGE 0 -1 replies with the
\* whole list.
C19_Slice(lst, start, end) ==
    LET L == Len(lst)
        s == IF start < 0 THEN start + L ELSE start
        e == IF end < 0 THEN end + L ELSE end
        lo == IF s > 0 THEN s ELSE 0
        hi == IF e < L - 1 THEN e ELSE L - 1 IN
    IF s > e \/ s >= L \/ hi < lo THEN <<>>
    ELSE [i \in 1..(hi - lo + 1) |-> lst[lo + i]]

C19_LrangeSlice ==
    \A c \in Clients :
        (pc[c] = "reply" /\ loc[c].cmd = "LRANGE") =>
            LET lst == DATA_STORE[loc[c].key].value IN
            /\ loc[c].result.kind = "array"
            /\ loc[c].result.items = C19_Slice(lst, loc[c].start, loc[c].end)
            /\ (loc[c].start = 0 /\ loc[c].end = -1) => loc[c].result.items = lst

\* LRANGE k -2 5 on the list 1, 2, 3 replies with 2, 3
C19_Witness ==
    \E c \in Clients :
        /\ pc[c] = "reply" /\ loc[c].cmd = "LRANGE"
        /\ DATA_STORE[loc[c].key].value = <<1, 2, 3>>
        /\ loc[c].start = -2 /\ loc[c].end = 5
        /\ loc[c].result.items = <<2, 3>>

\* C20: an LPOP with a count argument that has popped elements replies with
\* the array of the popped elements, also when exactly one element was
\* popped; an LPOP without a count replies with the one popped element as a
\* bulk string.
C20_LpopReplyShape ==
    \A c \in Clients :
        (pc[c] = "reply" /\ loc[c].cmd = "LPOP" /\ loc[c].popped # <<>>) =>
            IF loc[c].i = 1
            THEN loc[c].result = ArrayFrame(loc[c].popped)
            ELSE loc[c].result = BulkFrame(loc[c].popped[1])

\* C21: no step turns a non-empty list into an empty list held by the store:
\* the pop that removes the last element (LPOP, the fast path of BLPOP, the
\* pop of a producer's handoff) removes the key in the same step.
C21_NoEmptiedList ==
    [][\A key \in Keys :
        (DATA_STORE[key].type = "list" /\ DATA_STORE[key].value # <<>>) =>
            ~(DATA_STORE'[key].type = "list" /\ DATA_STORE'[key].value = <<>>)]_vars

\* an LPOP has popped the last element of its list and the key is gone
C21_Witness ==
    \E c \in Clients :
        /\ pc[c] = "reply" /\ loc[c].cmd = "LPOP"
        /\ loc[c].popped # <<>>
        /\ DATA_STORE[loc[c].key] = Absent

\* C22: an INCR or INCRBY whose result would fall outside the signed 64-bit
\* range replies with the error "value is not an integer or out of range" and
\* leaves the stored value unchanged.
C22_Int64Max ==
    <<"9", "2", "2", "3", "3", "7", "2", "0", "3", "6", "8", "5", "4", "7", "7", "5",
      "8", "0", "7">>

\* the digit strings a and b of equal length: a > b
RECURSIVE C22_Greater(_, _)
C22_Greater(a, b) ==
    IF a = <<>> THEN FALSE
    ELSE IF a[1] # b[1] THEN DigitVal(a[1]) > DigitVal(b[1])
    ELSE C22_Greater(Tail(a), Tail(b))

\* the decimal string s is an integer outside -2^63 .. 2^63 - 1
C22_OutOfRange(s) ==
    LET b == StrToBig(s)
        limit == IF b.neg THEN DecAdd(C22_Int64Max, 1) ELSE C22_Int64Max IN
    \/ Len(b.mag) > Len(limit)
    \/ Len(b.mag) = Len(limit) /\ C22_Greater(b.mag, limit)

C22_OverflowRejected ==
    [][\A c \in Clients :
        LET l == loc'[c]
            entry == DATA_STORE[l.key] IN
        (/\ pc[c] = "idle" /\ pc'[c] # "idle"
         /\ l.cmd \in {"INCR", "INCRBY"}
         /\ entry.type = "string" /\ StrToBig(entry.value).ok
         /\ C22_OutOfRange(StrPlus(entry.value, IF l.cmd = "INCR" THEN 1 ELSE l.count)))
        => /\ pc'[c] = "reply"
           /\ l.result = ErrorFrame(ErrNotInteger)
           /\ DATA_STORE' = DATA_STORE]_vars

\* C23: DEL replies with the number of named keys that were present and were
\* removed, and once DEL k is over no stream body remains for k, so that a
\* following XRANGE k - + returns no entries.
C23_DelStep(c) ==
    \/ pc[c] = "idle" /\ pc'[c] # "idle" /\ loc'[c].cmd = "DEL"
    \/ pc[c] = "del_next" /\ loc'[c] # loc[c]

C23_DelRemovesStream ==
    [][\A c \in Clients :
        (C23_DelStep(c) /\ pc'[c] = "reply") =>
            /\ xrange(STREAMS', loc'[c].key, MinId, MaxId) = <<>>
            /\ loc'[c].result.kind = "integer"
            /\ loc'[c].result.n <= loc'[c].size
            /\ loc'[c].size = 1 =>
                  loc'[c].result.n = IF DATA_STORE[loc'[c].key].type # "none" THEN 1 ELSE 0]_vars

\* C24: decoding the array-of-bulk-strings encoding of a non-empty list of
\* strings (empty strings, multi-byte characters and strings that contain
\* CR LF included) gives the list back, every length being a count of bytes.
C24_RoundTrip ==
    \A c \in Clients :
        pc[c] = "decoded" =>
            /\ loc[c].parsed.ok
            /\ loc[c].parsed.elems = loc[c].args

\* the list of an empty string and a string of a two-byte character and CR
\* has made the round trip
C24_Witness ==
    \E c \in Clients :
        /\ pc[c] = "decoded"
        /\ loc[c].args = <<<<>>, <<"U+E9", "CR">>>>
        /\ loc[c].data = <<"*", "2", "CR", "LF", "$", "0", "CR", "LF", "CR", "LF",
                           "$", "3", "CR", "LF", "C3", "A9", "CR", "CR", "LF">>
        /\ loc[c].parsed.elems = loc[c].args

\* C25: when several complete request frames arrive on one connection, also
\* within one read, every request is executed and its reply is written, in
\* request order: when the connection goes back to its read, the replies to
\* all the requests of the read it has handled are on its socket, in order.
C25_ReplyOf(req) == IF req = ReqEcho THEN StringFrame(<<"a">>) ELSE SimpleFrame("PONG")

C25_Pipelining ==
    [][\A c \in Clients :
        (/\ pc[c] = "reply" /\ pc'[c] = "idle"
         /\ peer[c] = "open"
         /\ loc[c].greqs \in {<<ReqEcho, ReqPing>>, <<ReqPing, ReqEcho>>})
        => sock'[c] = sock[c] \o [j \in 1..Len(loc[c].greqs) |-> C25_ReplyOf(loc[c].greqs[j])]]_vars

\* C26: a request frame that arrives split across two reads is no error: the
\* decoder reports no frame for the incomplete prefix and the connection
\* stays open for the remaining bytes.
C26_ShortRead ==
    \A c \in Clients :
        (loc[c].gcut /\ loc[c].greqs = <<ReqEcho>>) =>
            /\ ~loc[c].parsed.ok
            /\ pc[c] \notin {"ended", "crashed", "closed"}

\* C27: a request that fails with a shape, type, domain or unknown-command
\* error (wrong arity, an argument that is no integer, an unknown command) is
\* answered with one error frame on its own connection, which then goes on
\* to its next request.
C27_ErrorRequests ==
    {ReqEchoNone, ReqRpushNone, ReqBlpopOne, ReqIncrNone, ReqLrangeTwo, ReqLrangeBad,
     ReqUnknown}

C27_OneErrorFrame ==
    [][\A c \in Clients :
        (/\ pc[c] = "wire_exec" /\ pc'[c] # "wire_exec"
         /\ loc[c].parsed.elems \in C27_ErrorRequests)
        => /\ pc'[c] = "reply"
           /\ loc'[c].result.kind = "error"]_vars

\* C28: the store never holds more than MaxKeys keys: setting a new string
\* key when MaxKeys keys are present evicts one of them, and the newly set
\* key is present afterwards.
C28_AtMostMaxKeys ==
    /\ Cardinality({k \in DOMAIN DATA_STORE : DATA_STORE[k] # Absent}) <= MaxKeys
    /\ \A c \in Clients :
        (pc[c] = "reply" /\ loc[c].cmd = "SET") => DATA_STORE[loc[c].key] # Absent

\* C29: a waiter is signalled at most once, and when it is signalled the
\* producer's write to the waiter's connection (delivered or failed) has
\* already been made.
C29_SignalledOnceAfterWrite ==
    \A w \in 1..Len(conds) :
        /\ conds[w].gsignals <= 1
        /\ (conds[w].gsignals > 0 \/ conds[w].notified) => conds[w].gwritten

\* a waiter woken by the one signal a producer gave it
C29_Witness ==
    \E w \in 1..Len(conds) :
        /\ conds[w].gsignals = 1
        /\ conds[w].notified
        /\ conds[w].gwritten

\* the place of a mutex in the permitted order: data, registry, waiter condition
C30_Rank(m) ==
    CASE m = "DATA_LOCK" -> 1
      [] m \in {"BLOCKING_CLIENTS_LOCK", "BLOCKING_STREAMS_LOCK"} -> 2
      [] OTHER -> 3

\* C30: a thread acquires mutexes only in the order data mutex, registry mutex,
\* waiter condition mutex: whenever it asks for a mutex, every mutex it holds
\* comes earlier in that order (so it never asks for one it already holds).
C30_LockOrder ==
    \A c \in Clients :
        loc[c].want # "" =>
            \A i \in 1..Len(loc[c].held) : C30_Rank(loc[c].held[i]) < C30_Rank(loc[c].want)

\* C31: writes to one connection are serialized: at any moment at most one
\* thread is inside a write to a given connection's socket.
C31_OneWriter ==
    \A s \in Clients : Cardinality({c \in Clients : loc[c].writing = s}) <= 1

\* C32: RDB loading ends at the 0xFF end opcode: the bytes that follow the
\* first 0xFF opcode add or change no entry, so the loaded store is the store
\* loaded from the file cut after that opcode.
C32_EndsAtFF ==
    \A c \in Clients :
        (pc[c] = "rdb_loaded" /\ loc[c].gend > 0) =>
            loc[c].new_store =
                load_rdb_to_datastore(SubSeq(loc[c].file, 1, loc[c].gend)).store

\* C33: an XADD that is rejected with a stream-id error leaves the store
\* unchanged: no store entry and no stream body is created or modified.
C33_RejectedXaddChangesNothing ==
    [][\A c \in Clients :
        (/\ pc[c] = "idle"
         /\ pc'[c] = "reply"
         /\ loc'[c].cmd = "XADD"
         /\ loc'[c].result.kind = "error")
        => (DATA_STORE' = DATA_STORE /\ STREAMS' = STREAMS)]_vars

\* no command is in progress except parked blocking commands
C34_Quiescent ==
    \A c \in Clients : pc[c] \in {"idle", "blpop_wait", "xread_wait", "closed", "ended", "crashed"}

\* C34: in every quiescent state, if the list at a key is non-empty then no
\* BLPOP waiter is parked on that key.
C34_NoWaiterOnNonEmptyList ==
    C34_Quiescent =>
        \A key \in Keys :
            (DATA_STORE[key].type = "list" /\ DATA_STORE[key].value # <<>>) =>
                ~\E c \in Clients :
                    /\ pc[c] = "blpop_wait"
                    /\ loc[c].key = key
                    /\ peer[c] = "open"
                    /\ ~conds[loc[c].cond].notified
                    /\ \E j \in 1..Len(BLOCKING_CLIENTS[key]) :
                           BLOCKING_CLIENTS[key][j] = loc[c].cond

\* C35: every waiter that a producer removes from a waiter queue is signalled
\* by that producer: when the producer's handler returns, a notify has been
\* made on the Condition it took.
C35_RemovedWaiterSignalled ==
    \A c \in Clients :
        (pc[c] = "reply" /\ loc[c].cmd = "RPUSH" /\ loc[c].bcc # NoCond) =>
            conds[loc[c].bcc].gsignals > 0

\* C37: in every reachable state, every list entry present in the store has
\* at least one element.
C37_NoEmptyList ==
    \A key \in Keys : DATA_STORE[key].type = "list" => DATA_STORE[key].value # <<>>

\* the elements of a push, last one first
C39_Reversed(elems) == [j \in 1..Len(elems) |-> elems[Len(elems) + 1 - j]]

\* C39: LPUSH key e1 ... en leaves en at the head and e1 deepest among the
\* pushed elements, whether the key held a list or was absent: when the last
\* element has gone in, the list starts with en, ..., e1.
C39_LpushOrder ==
    [][\A c \in Clients :
        (/\ loc[c].cmd = "LPUSH"
         /\ pc[c] \in {"lpush_prepend", "lpush_set"}
         /\ pc'[c] = "lpush_size"
         /\ loc[c].elems # <<>>)
        => (/\ DATA_STORE'[loc[c].key].type = "list"
            /\ Len(DATA_STORE'[loc[c].key].value) >= Len(loc[c].elems)
            /\ SubSeq(DATA_STORE'[loc[c].key].value, 1, Len(loc[c].elems))
                   = C39_Reversed(loc[c].elems))]_vars

\* C38: in every reachable state, a key has a stream body if and only if its
\* store entry exists with kind stream.
C38_StreamBodyIffStreamKind ==
    \A key \in Keys : STREAMS[key].has <=> DATA_STORE[key].type = "stream"

====
